---------------------------- MODULE Spec2Model ----------------------------
(***************************************************************************)
(* A model of the full mark-compact collector of src/heap/mark-compact.cc. *)
(*                                                                         *)
(* The module holds several state machines over one set of variables:      *)
(*   SpecCycle   the page-level pipeline of one collector: Prepare,        *)
(*               CollectGarbage and its phases, AbortCompaction and the    *)
(*               start of incremental marking;                             *)
(*   SpecPhases  the same machine with every phase callable on its own, in *)
(*               any order, to exercise the phase assertions;              *)
(*   SpecMark    object-level marking (MarkLiveObjects and below);         *)
(*   SpecClear   ClearWeakReferences over recorded weak slots;             *)
(*   SpecEvac    object-level evacuation and pointer updating.             *)
(* Each machine leaves the variables of the others unchanged.              *)
(***************************************************************************)
EXTENDS Integers, Sequences, FiniteSets, TLC

(***************************************************************************)
(* Bounds of the page-level model.                                         *)
(***************************************************************************)
NumPages == 4
NumWorkers == 2
MaxCalls == 2
MaxPhaseCalls == 3

Pages == 1..NumPages
Workers == 1..NumWorkers

\* Even pages belong to the code space, odd pages to the old space.
PageOwner(p) == IF p % 2 = 0 THEN "CODE_SPACE" ELSE "OLD_SPACE"
PagesOf(space) == {p \in Pages : PageOwner(p) = space}
Spaces == {"OLD_SPACE", "CODE_SPACE"}

(***************************************************************************)
(* Sizes, in KB (12 MB is 12288).  AreaSize is space->AreaSize().          *)
(***************************************************************************)
AreaSize == 256
AllocatedChoices == {16, 160}

kTargetFragmentationPercentForReduceMemory == 20
kMaxEvacuatedBytesForReduceMemory == 12288
kTargetFragmentationPercentForOptimizeMemory == 20
kMaxEvacuatedBytesForOptimizeMemory == 6144
kTargetFragmentationPercent == 70
kMaxEvacuatedBytes == 4096

\* The collector states (enum CollectorState, DEBUG builds).
IDLE == "IDLE"
PREPARE_GC == "PREPARE_GC"
MARK_LIVE_OBJECTS == "MARK_LIVE_OBJECTS"
SWEEP_SPACES == "SWEEP_SPACES"
RELOCATE_OBJECTS == "RELOCATE_OBJECTS"

\* Page flags.
EVACUATION_CANDIDATE == "EVACUATION_CANDIDATE"
COMPACTION_WAS_ABORTED == "COMPACTION_WAS_ABORTED"
NEVER_EVACUATE == "NEVER_EVACUATE"
PINNED == "PINNED"

(***************************************************************************)
(* The configurations a run is started with: the FLAG_ options and whether *)
(* the collection runs without a stack.                                    *)
(***************************************************************************)
AllFlags ==
  [compact |-> TRUE, compact_with_stack |-> TRUE,
   compact_code_space |-> TRUE, compact_code_space_with_stack |-> TRUE,
   parallel_marking |-> TRUE, crash_on_aborted_evacuation |-> FALSE]

Configurations ==
  { [stackless |-> TRUE, flags |-> AllFlags],
    [stackless |-> FALSE, flags |-> AllFlags],
    [stackless |-> FALSE,
     flags |-> [AllFlags EXCEPT !.compact_with_stack = FALSE,
                                !.parallel_marking = FALSE]],
    [stackless |-> FALSE,
     flags |-> [AllFlags EXCEPT !.compact_code_space_with_stack = FALSE]] }

VARIABLES
  \* ---- page-level collector (SpecCycle, SpecPhases) ----
  state_,                       \* MarkCompactCollector::state_
  compacting_,                  \* MarkCompactCollector::compacting_
  evacuation_candidates_,       \* sequence of pages
  old_space_evacuation_pages_,  \* sequence of pages
  aborted_oom,                  \* aborted_evacuation_candidates_due_to_oom_
  aborted_flags,                \* aborted_evacuation_candidates_due_to_flags_
  page_flags,                   \* page -> set of flags
  allocated_bytes,              \* page -> allocated bytes
  live_bytes,                   \* page -> live bytes found by marking
  old_to_old,                   \* page -> the page has an OLD_TO_OLD slot set
  chunk_list,                   \* pages on the memory chunk list of their space
  sweeper_pages,                \* page -> AddPage calls since sweeping completed
  released_pages,               \* sequence of pages given to ReleasePage
  is_marking,                   \* incremental marking is in progress
  gc_without_stack,             \* heap()->IsGCWithoutStack() of this cycle
  heap_mode,                    \* regular, reduce_memory or optimize_for_memory
  lab_owner,                    \* page owning the linear allocation area, or 0
  flags,                        \* the FLAG_ configuration
  pc,                           \* position of the main thread
  caller,                       \* who invoked the running phase
  job,                          \* the posted job: its kind and pending items
  state_history,                \* the values state_ took in this cycle
  phase_log,                    \* the phases begun in this cycle
  rejected,                     \* the function whose assertion failed, or "none"
  invoked,                      \* the operation the harness invoked last
  calls_left                    \* calls_left the harness may still make

cycleVars ==
  << state_, compacting_, evacuation_candidates_, old_space_evacuation_pages_,
     aborted_oom, aborted_flags, page_flags, allocated_bytes, live_bytes,
     old_to_old,
     chunk_list, sweeper_pages, released_pages, is_marking, gc_without_stack,
     heap_mode, lab_owner,
     flags, pc, caller, job, state_history, phase_log, rejected, invoked,
     calls_left >>

(***************************************************************************)
(* Object-level marking (SpecMark): the heap graph and the marking state.  *)
(***************************************************************************)
NumObjects == 4
\* The largest value FLAG_ephemeron_fixpoint_iterations takes.
MaxIterations == 2

Objects == 1..NumObjects

White == "White"
Grey == "Grey"
Black == "Black"

VARIABLES
  \* ---- the heap graph, fixed during marking ----
  roots,                        \* the strong roots
  strong,                       \* strong references, as pairs <<host, target>>
  ephemerons,                   \* entries [table, key, value] of the tables
  fillers,                      \* filler objects left behind by left trimming
  premarked,                    \* objects marked before MarkLiveObjects began
  flag_parallel_marking,        \* FLAG_parallel_marking
  max_iterations,               \* FLAG_ephemeron_fixpoint_iterations
  \* ---- marking state ----
  color,                        \* object -> White, Grey or Black
  marking_worklist,             \* local_marking_worklists()
  current_ephemerons,           \* weak_objects_.current_ephemerons
  next_ephemerons,              \* weak_objects_.next_ephemerons
  discovered_ephemerons,        \* weak_objects_.discovered_ephemerons
  key_to_values,                \* the multimap of MarkTransitiveClosureLinear
  newly_discovered,             \* ephemeron_marking_.newly_discovered
  newly_discovered_limit,       \* ephemeron_marking_.newly_discovered_limit
  newly_discovered_overflowed,  \* ephemeron_marking_.newly_discovered_overflowed
  iterations,                   \* iterations of MarkTransitiveClosureUntilFixpoint
  another_ephemeron_iteration_main_thread,
  another_ephemeron_iteration,  \* the flag of ConcurrentMarking
  objects_processed,            \* ProcessMarkingWorklist visited an object
  parallel_marking_,            \* MarkCompactCollector::parallel_marking_
  marking_job,                  \* the marking job of ConcurrentMarking is running
  task_local,                   \* objects held by the tasks of the marking job
  mark_pc,                      \* position of the main thread in MarkLiveObjects
  closures,                     \* calls of MarkTransitiveClosure begun
  finished_by,                  \* how the last MarkTransitiveClosure finished
  mark_failed                   \* the function whose CHECK failed, or "none"

heapVars ==
  << roots, strong, ephemerons, fillers, premarked, flag_parallel_marking,
     max_iterations >>
markStateVars == << color, marking_worklist, discovered_ephemerons,
                    next_ephemerons >>
linearVars == << key_to_values, newly_discovered, newly_discovered_limit,
                 newly_discovered_overflowed >>
loopVars == << iterations, another_ephemeron_iteration_main_thread,
               objects_processed >>
jobVars == << parallel_marking_, marking_job, task_local >>
markVars ==
  << heapVars, markStateVars, current_ephemerons, linearVars, loopVars,
     another_ephemeron_iteration, jobVars, mark_pc, closures, finished_by,
     mark_failed >>

\* The marking machine at rest, with the colours marking left.
MarkAtRest(colors) ==
  /\ roots = {}
  /\ strong = {}
  /\ ephemerons = {}
  /\ fillers = {}
  /\ premarked = {}
  /\ flag_parallel_marking = FALSE
  /\ max_iterations = 0
  /\ color = colors
  /\ marking_worklist = {}
  /\ current_ephemerons = {}
  /\ next_ephemerons = {}
  /\ discovered_ephemerons = {}
  /\ key_to_values = {}
  /\ newly_discovered = {}
  /\ newly_discovered_limit = 0
  /\ newly_discovered_overflowed = FALSE
  /\ iterations = 0
  /\ another_ephemeron_iteration_main_thread = FALSE
  /\ another_ephemeron_iteration = FALSE
  /\ objects_processed = FALSE
  /\ parallel_marking_ = FALSE
  /\ marking_job = FALSE
  /\ task_local = {}
  /\ mark_pc = "idle"
  /\ closures = 0
  /\ finished_by = "none"
  /\ mark_failed = "none"

\* The marking machine before marking, as the page-level machine leaves it.
MarkQuiescent == MarkAtRest([o \in Objects |-> White])

(***************************************************************************)
(* Weak-reference clearing (SpecClear): slots and the weak_references      *)
(* worklist.  The objects and their colours are those of marking.          *)
(***************************************************************************)
NumSlots == 3

Slots == 1..NumSlots

VARIABLES
  slot_value,                   \* slot -> what the slot holds
  slot_before,                  \* slot -> what it held when clearing began
  weak_references,              \* weak_objects_.weak_references, as slots
  weak_references_before,       \* the worklist when clearing began
  old_to_old_slots,             \* slots in the OLD_TO_OLD remembered sets
  dead_transitions,             \* maps given to ClearPotentialSimpleMapTransition
  clear_pc                      \* position in ClearNonLiveReferences

clearVars ==
  << slot_value, slot_before, weak_references, weak_references_before,
     old_to_old_slots, dead_transitions, clear_pc >>

\* What a slot may hold.
Smi == [kind |-> "smi", target |-> 0]
ClearedValue == [kind |-> "cleared", target |-> 0]
Weak(o) == [kind |-> "weak", target |-> o]
Strong(o) == [kind |-> "strong", target |-> o]

\* The clearing machine at rest, as the other machines leave it.
ClearQuiescent ==
  /\ slot_value = [s \in Slots |-> Smi]
  /\ slot_before = [s \in Slots |-> Smi]
  /\ weak_references = {}
  /\ weak_references_before = {}
  /\ old_to_old_slots = {}
  /\ dead_transitions = {}
  /\ clear_pc = "idle"

(***************************************************************************)
(* Object-level evacuation and pointer updating (SpecEvac).  An object and *)
(* its copy have two addresses; every object has one field slot, a typed   *)
(* slot (an embedded pointer) when its host is a code object.              *)
(***************************************************************************)
Addresses == 1..(2 * NumObjects)

VARIABLES
  map_word,                     \* address -> 0 (a map) or a forwarding address
  field,                        \* address -> what the field slot holds
  root_slot,                    \* what the strong root slot holds
  copy_page,                    \* object -> the page of its copy, or 0
  slot_set,                     \* addresses with a slot in OLD_TO_OLD slot sets
  typed_slot_set,               \* the same, for OLD_TO_OLD typed slot sets
  failed_object,                \* page -> the object whose allocation failed
  live_before,                  \* the objects that were Black before the copy
  young_field,                  \* objects with a slot that holds a young object
  shared_field,                 \* objects with a slot into the shared heap
  old_to_new_slots,             \* addresses with a slot in OLD_TO_NEW sets
  old_to_shared_slots,          \* addresses with a slot in OLD_TO_SHARED sets
  chunk_live_bytes,             \* page -> marking_state->live_bytes(page)
  evac_pc                       \* position in Evacuate

\* The slots out of the old generation, fixed during evacuation.
evacHeap == << young_field, shared_field >>

\* The OLD_TO_NEW and OLD_TO_SHARED sets and the live bytes of the pages.
evacRecorded == << old_to_new_slots, old_to_shared_slots, chunk_live_bytes >>

objectVars ==
  << map_word, field, root_slot, copy_page, slot_set, typed_slot_set,
     failed_object, live_before, evacHeap, evacRecorded, evac_pc >>

\* The evacuation machine at rest, as the other machines leave it.
EvacQuiescent ==
  /\ map_word = [a \in Addresses |-> 0]
  /\ field = [a \in Addresses |-> Smi]
  /\ root_slot = Smi
  /\ copy_page = [o \in Objects |-> 0]
  /\ slot_set = {}
  /\ typed_slot_set = {}
  /\ failed_object = [p \in Pages |-> 0]
  /\ live_before = {}
  /\ young_field = {}
  /\ shared_field = {}
  /\ old_to_new_slots = {}
  /\ old_to_shared_slots = {}
  /\ chunk_live_bytes = [p \in Pages |-> 0]
  /\ evac_pc = "idle"

(***************************************************************************)
(* Evacuation of the nursery (SpecNursery): the new-space pages, the       *)
(* marked objects on them and where each one was copied to.                *)
(***************************************************************************)
VARIABLES
  nursery_collector,            \* "full", "minor", or "none" at rest
  young_color,                  \* object -> colour its collector left
  young_live_bytes,             \* page -> live bytes its collector counted
  young_map_word,               \* object -> 0 (a map) or a forwarding address
  copy_space,                   \* object -> the space of its copy, or "none"
  promotion,                    \* page -> the promotion flag of the page
  young_marked,                 \* the objects marked when evacuation began
  nursery_items,                \* the pages of the evacuation items not yet run
  failed_allocation,            \* visited objects no allocation succeeded for
  nursery_pc                    \* position in EvacuatePagesInParallel

nurseryVars ==
  << nursery_collector, young_color, young_live_bytes, young_map_word,
     copy_space, promotion, young_marked, nursery_items, failed_allocation,
     nursery_pc >>

\* The nursery machine at rest, as the other machines leave it.
NurseryQuiescent ==
  /\ nursery_collector = "none"
  /\ young_color = [o \in Objects |-> White]
  /\ young_live_bytes = [p \in Pages |-> 0]
  /\ young_map_word = [o \in Objects |-> 0]
  /\ copy_space = [o \in Objects |-> "none"]
  /\ promotion = [p \in Pages |-> "none"]
  /\ young_marked = {}
  /\ nursery_items = {}
  /\ failed_allocation = {}
  /\ nursery_pc = "idle"

(***************************************************************************)
(* The parallel jobs over work items (SpecJob): the workers of             *)
(* PageEvacuationJob, PointersUpdatingJob and YoungGenerationMarkingJob.   *)
(***************************************************************************)
\* The largest number of work items of a job.
NumItems == 2

VARIABLES
  job_kind,                     \* the job class, or "none" at rest
  items_size,                   \* evacuation_items_.size() and its likes
  acquired,                     \* item -> ParallelWorkItem::acquire_
  processed_by,                 \* item -> the workers that processed it
  remaining_items,              \* remaining_evacuation_items_ and its likes
  generated,                    \* the indices IndexGenerator has handed out
  task_pc,                      \* worker -> its position in the loop
  task_index                    \* worker -> its loop variable i, from 1

taskVars ==
  << job_kind, items_size, acquired, processed_by, remaining_items,
     generated, task_pc, task_index >>

Items == 1..NumItems

\* The job machine at rest, as the other machines leave it.
TasksQuiescent ==
  /\ job_kind = "none"
  /\ items_size = 0
  /\ acquired = [i \in Items |-> FALSE]
  /\ processed_by = [i \in Items |-> << >>]
  /\ remaining_items = 0
  /\ generated = {}
  /\ task_pc = [w \in Workers |-> "absent"]
  /\ task_index = [w \in Workers |-> 0]

(***************************************************************************)
(* Marking of the young generation (SpecYoungMark): the roots, the         *)
(* OLD_TO_NEW marking items, the shared worklist and the live bytes each   *)
(* marking task accumulates.  The colours and the live bytes of the pages  *)
(* are those of the nursery machine.                                       *)
(***************************************************************************)
VARIABLES
  young_edges,                  \* object -> the young objects its fields hold
  young_roots,                  \* the objects the strong roots refer to
  marking_items,                \* objects referred to by pending marking items
  weak_young_roots,             \* objects ProcessWeakYoungObjects may visit
  old_to_new_targets,           \* marking_items when marking began
  weak_visited,                 \* objects ProcessWeakYoungObjects visited
  worklist,                     \* the shared marking worklist
  local_live_bytes,             \* task -> page -> local_live_bytes_
  marking_task,                 \* task -> "running", "returned" or "absent"
  young_pc                      \* position in MarkLiveObjects

youngMarkVars ==
  << young_edges, young_roots, marking_items, weak_young_roots,
     old_to_new_targets, weak_visited, worklist, local_live_bytes,
     marking_task, young_pc >>

\* The marking of the young generation at rest.
YoungMarkQuiescent ==
  /\ young_edges = [o \in Objects |-> {}]
  /\ young_roots = {}
  /\ marking_items = {}
  /\ weak_young_roots = {}
  /\ old_to_new_targets = {}
  /\ weak_visited = {}
  /\ worklist = {}
  /\ local_live_bytes = [w \in Workers |-> [p \in Pages |-> 0]]
  /\ marking_task = [w \in Workers |-> "absent"]
  /\ young_pc = "idle"

(***************************************************************************)
(* Selection of the evacuation candidates of one space (SpecSelect): one   *)
(* call of CollectEvacuationCandidates in each selection mode.             *)
(***************************************************************************)
VARIABLES
  selection_mode,               \* the FLAG_ that chooses the selection
  heuristics,                   \* what ComputeEvacuationHeuristics returned
  space_flags,                  \* page -> flags of the page
  space_flags_before,           \* the same, when the call began
  space_allocated,              \* page -> p->allocated_bytes()
  linear_area_owner,            \* owner_of_linear_allocation_area, or 0
  space_candidates,             \* evacuation_candidates_ after the call
  select_pc                     \* "idle", "call" or "returned"

selectVars ==
  << selection_mode, heuristics, space_flags, space_flags_before,
     space_allocated, linear_area_owner, space_candidates, select_pc >>

\* The selection at rest.
SelectQuiescent ==
  /\ selection_mode = "none"
  /\ heuristics = [target_fragmentation_percent |-> 0,
                   max_evacuated_bytes |-> 0]
  /\ space_flags = [p \in Pages |-> {}]
  /\ space_flags_before = [p \in Pages |-> {}]
  /\ space_allocated = [p \in Pages |-> 0]
  /\ linear_area_owner = 0
  /\ space_candidates = << >>
  /\ select_pc = "idle"

(***************************************************************************)
(* The order of the clearing steps (SpecClearOrder): MarkLiveObjects and   *)
(* ClearNonLiveReferences as CollectGarbage calls them, with the job that  *)
(* clears the string table.                                                *)
(***************************************************************************)
VARIABLES
  owns_string_tables,           \* isolate()->OwnsStringTables()
  sandboxed_external_pointers,  \* built with V8_SANDBOXED_EXTERNAL_POINTERS
  clearing_pc,                  \* the steps the main thread has still to run
  clearing_item,                \* the ClearStringTableJobItem of the job
  clearing_log                  \* the steps begun and ended, in order

orderVars ==
  << owns_string_tables, sandboxed_external_pointers, clearing_pc,
     clearing_item, clearing_log >>

\* The collector outside CollectGarbage.
OrderQuiescent ==
  /\ owns_string_tables = FALSE
  /\ sandboxed_external_pointers = FALSE
  /\ clearing_pc = << >>
  /\ clearing_item = "none"
  /\ clearing_log = << >>

(***************************************************************************)
(* The weak-object worklists at the barriers of the pipeline               *)
(* (SpecBarriers) and the ephemeron hash tables in ClearWeakCollections    *)
(* (SpecWeakCollections).                                                  *)
(***************************************************************************)
VARIABLES
  nonempty_worklists,           \* the worklists that hold something
  filled_by_marking,            \* the same when the final closure returned
  remote_tracing_done,          \* local_embedder_heap_tracer()->IsRemoteTracingDone()
  barrier_pc,                   \* the steps the collector has still to run
  table_entries,                \* entries [table, key, value] of the tables
  entries_before,               \* the same when ClearWeakCollections began
  weak_marked,                  \* the objects that are Black or Grey
  shared_objects,               \* the objects in the shared heap
  is_shared_heap_,              \* MarkCompactCollector::is_shared_heap_
  ephemeron_hash_tables,        \* weak_objects_.ephemeron_hash_tables
  tables_before,                \* the same when ClearWeakCollections began
  ephemeron_remembered_set,     \* tables with an entry in the remembered set
  remembered_before,            \* the same when ClearWeakCollections began
  weak_pc                       \* position in ClearWeakCollections

barrierVars ==
  << nonempty_worklists, filled_by_marking, remote_tracing_done, barrier_pc >>

collectionVars ==
  << table_entries, entries_before, weak_marked, shared_objects,
     is_shared_heap_, ephemeron_hash_tables, tables_before,
     ephemeron_remembered_set, remembered_before, weak_pc >>

(***************************************************************************)
(* The number of workers the evacuation job asks for (SpecConcurrency).    *)
(***************************************************************************)
\* The largest number of evacuation items and of evacuators.
MaxRemainingItems == 9
MaxEvacuators == 3

VARIABLES
  page_size,                    \* Page::kPageSize
  evacuators_size,              \* evacuators_->size()
  remaining_evacuation_items,   \* remaining_evacuation_items_
  max_concurrency               \* what GetMaxConcurrency returned last, or -1

concurrencyVars ==
  << page_size, evacuators_size, remaining_evacuation_items, max_concurrency >>

\* No evacuation job exists.
ConcurrencyQuiescent ==
  /\ page_size = 0
  /\ evacuators_size = 0
  /\ remaining_evacuation_items = 0
  /\ max_concurrency = -1

(***************************************************************************)
(* The transition array of a map in ClearFullMapTransitions                *)
(* (SpecTransitions).                                                      *)
(***************************************************************************)
\* The largest number of entries of a transition array, and of target maps.
MaxTransitions == 3
NumMaps == 3

VARIABLES
  transition_array,             \* the entries [key, target] of the array
  array_before,                 \* the same when the array was popped
  marked_maps,                  \* the target maps that are Black or Grey
  instance_descriptors,         \* target map -> its descriptor array
  parent_is_alive,              \* the parent map is Black or Grey
  back_pointer_is_smi,          \* the first target is being deserialized
  compact_called,               \* CompactTransitionArray was called
  descriptors_owner_died,       \* what CompactTransitionArray returned
  transition_slots,             \* the positions RecordSlot was called for
  transition_pc                 \* position in ClearFullMapTransitions

transitionVars ==
  << transition_array, array_before, marked_maps, instance_descriptors,
     parent_is_alive, back_pointer_is_smi, compact_called,
     descriptors_owner_died, transition_slots, transition_pc >>

Maps == 1..NumMaps

\* No transition array is on the worklist.
TransitionsQuiescent ==
  /\ transition_array = << >>
  /\ array_before = << >>
  /\ marked_maps = {}
  /\ instance_descriptors = [m \in Maps |-> 0]
  /\ parent_is_alive = FALSE
  /\ back_pointer_is_smi = FALSE
  /\ compact_called = FALSE
  /\ descriptors_owner_died = FALSE
  /\ transition_slots = {}
  /\ transition_pc = "idle"

(***************************************************************************)
(* The weak lists of the heap over several full collections                *)
(* (SpecRetain): the objects MarkCompactWeakObjectRetainer is asked about. *)
(***************************************************************************)
\* The number of objects on or beside the weak lists, and of collections.
NumSites == 3
MaxRetainCycles == 3

VARIABLES
  is_allocation_site,           \* object -> object.IsAllocationSite()
  nested_site,                  \* site -> its nested_site(), or 0
  is_zombie,                    \* site -> IsZombie()
  site_color,                   \* object -> White or Black
  weak_list,                    \* the objects on the weak lists
  to_retain,                    \* those RetainAs is still to be asked about
  site_reachable,               \* the objects the strong roots reach
  site_freed,                   \* the objects the sweeper has freed
  retained_unreachable,         \* object -> the collections it outlived
                                \* while unreachable
  last_retained,                \* the object of the last RetainAs call and
                                \* whether it was retained
  retain_cycles,                \* the collections run
  retain_pc                     \* "idle", "mutator" or "weak_lists"

retainVars ==
  << is_allocation_site, nested_site, is_zombie, site_color, weak_list,
     to_retain, site_reachable, site_freed, retained_unreachable,
     last_retained, retain_cycles, retain_pc >>

Sites == 1..NumSites

\* No weak list is being processed.
RetainQuiescent ==
  /\ is_allocation_site = [o \in Sites |-> FALSE]
  /\ nested_site = [o \in Sites |-> 0]
  /\ is_zombie = [o \in Sites |-> FALSE]
  /\ site_color = [o \in Sites |-> White]
  /\ weak_list = {}
  /\ to_retain = {}
  /\ site_reachable = {}
  /\ site_freed = {}
  /\ retained_unreachable = [o \in Sites |-> 0]
  /\ last_retained = [object |-> 0, retained |-> FALSE]
  /\ retain_cycles = 0
  /\ retain_pc = "idle"

(***************************************************************************)
(* The ephemeron remembered sets of the evacuators and of the heap         *)
(* (SpecFinalize).                                                         *)
(***************************************************************************)
VARIABLES
  heap_ephemeron_tables,        \* the keys of heap->ephemeron_remembered_set_
  heap_ephemeron_entries,       \* its indices, as pairs <<table, index>>
  evacuator_entries,            \* evacuator -> the pairs of its own set
  finalize_index,               \* the evacuator Finalize is called on next
  finalize_pc                   \* position in CreateAndExecuteEvacuationTasks

finalizeVars ==
  << heap_ephemeron_tables, heap_ephemeron_entries, evacuator_entries,
     finalize_index, finalize_pc >>

\* No evacuator exists.
FinalizeQuiescent ==
  /\ heap_ephemeron_tables = {}
  /\ heap_ephemeron_entries = {}
  /\ evacuator_entries = [w \in Workers |-> {}]
  /\ finalize_index = 0
  /\ finalize_pc = "idle"

(***************************************************************************)
(* The OLD_TO_NEW slot sets in the pointer-update phase (SpecOldToNew).    *)
(***************************************************************************)
VARIABLES
  updating_collector,           \* GarbageCollector of the updating items
  old_to_new_value,             \* slot -> what the slot holds
  old_to_new_before,            \* the same when pointer updating began
  old_to_new_set,               \* the slots in the OLD_TO_NEW slot sets
  old_to_new_allocated,         \* the chunks that have an OLD_TO_NEW slot set
  old_to_new_items              \* the chunks whose item is still to run

oldToNewVars ==
  << updating_collector, old_to_new_value, old_to_new_before, old_to_new_set,
     old_to_new_allocated, old_to_new_items >>

\* A slot that holds a Smi.
SmiSlot ==
  [holds |-> "smi", page |-> "none", forwarding |-> "none",
   marked |-> FALSE, valid |-> TRUE]

\* No pointers are being updated.
OldToNewQuiescent ==
  /\ updating_collector = "none"
  /\ old_to_new_value = [t \in Slots |-> SmiSlot]
  /\ old_to_new_before = [t \in Slots |-> SmiSlot]
  /\ old_to_new_set = {}
  /\ old_to_new_allocated = {}
  /\ old_to_new_items = {}

\* The reports of aborted evacuation candidates by the evacuators of the
\* page evacuation job.
NumReportPages == 3
NumReporters == 2
VARIABLES
  report_candidates,            \* old_space_evacuation_pages_ of this job
  report_config,                \* the stack and the flags of the collection
  compaction_was_aborted,       \* pages carrying COMPACTION_WAS_ABORTED
  report_items,                 \* evacuation items not yet acquired
  due_to_oom,                   \* aborted_evacuation_candidates_due_to_oom_
  due_to_flags,                 \* aborted_evacuation_candidates_due_to_flags_
  mutex_,                       \* the evacuator holding mutex_, or 0
  reporter,                     \* evacuator -> where it is and on which page
  failed_pages,                 \* pages whose evacuation failed
  aborted_pages,                \* result of PostProcessEvacuationCandidates
  aborted_pages_verified,
  report_pc

reportVars ==
  << report_candidates, report_config, compaction_was_aborted, report_items,
     due_to_oom, due_to_flags, mutex_, reporter, failed_pages, aborted_pages,
     aborted_pages_verified, report_pc >>

ReportPages == 1..NumReportPages
Reporters == 1..NumReporters
IdleReporter == [at |-> "idle", page |-> 0, end |-> 0]
NoReportConfig ==
  [with_stack |-> FALSE, compact_with_stack |-> TRUE,
   compact_code_space_with_stack |-> TRUE,
   crash_on_aborted_evacuation |-> FALSE]

ReportsQuiescent ==
  /\ report_candidates = {}
  /\ report_config = NoReportConfig
  /\ compaction_was_aborted = {}
  /\ report_items = {}
  /\ due_to_oom = << >>
  /\ due_to_flags = << >>
  /\ mutex_ = 0
  /\ reporter = [w \in Reporters |-> IdleReporter]
  /\ failed_pages = {}
  /\ aborted_pages = 0
  /\ aborted_pages_verified = 0
  /\ report_pc = "none"

\* The promotion of nursery pages as a whole, by either collector.
NumNurseryPages == 2
VARIABLES
  promo_collector,              \* the collector that evacuates
  promo_heap,                   \* the flags and ShouldReduceMemory()
  promo_page,                   \* page -> live bytes and what the heap says
  promo_flag,                   \* page -> promotion flag set by Move
  promo_items,                  \* evacuation items
  evacuated_as,                 \* page -> evacuation mode it was visited in
  forwarding_installed,         \* pages whose objects were copied
  promo_pc

promotionVars ==
  << promo_collector, promo_heap, promo_page, promo_flag, promo_items,
     evacuated_as, forwarding_installed, promo_pc >>

NurseryPages == 1..NumNurseryPages
NoPromoHeap ==
  [reduce_memory |-> FALSE, page_promotion |-> TRUE,
   page_promotion_threshold |-> 70, minor_mc_sweeping |-> FALSE]
NoPromoPage ==
  [live_bytes |-> 0, never_evacuate |-> FALSE, contains_age_mark |-> FALSE,
   below_age_mark |-> FALSE, can_expand |-> TRUE]

PromotionQuiescent ==
  /\ promo_collector = "none"
  /\ promo_heap = NoPromoHeap
  /\ promo_page = [p \in NurseryPages |-> NoPromoPage]
  /\ promo_flag = [p \in NurseryPages |-> "none"]
  /\ promo_items = {}
  /\ evacuated_as = [p \in NurseryPages |-> "none"]
  /\ forwarding_installed = {}
  /\ promo_pc = "none"

\* What happened to pages in the last evacuation of the page-level machine.
VARIABLES
  cycle_aborted,                \* candidates PostProcess found aborted
  cycle_promoted                \* nursery pages promoted as a whole

historyVars == << cycle_aborted, cycle_promoted >>

HistoryQuiescent ==
  /\ cycle_aborted = {}
  /\ cycle_promoted = {}

\* The forwarding addresses of an evacuation and the slots it updates.
NumForwarded == 3
VARIABLES
  fw_collector,                 \* the collector that evacuates
  fw_incremental,               \* is_incremental_marking_ of the visitor
  fw_page,                      \* object -> the kind of page it is on
  fw_thin,                      \* the ThinStrings
  fw_slot,                      \* object -> what its field refers to, or 0
  fw_map_word,                  \* object -> forwarding address, or 0
  fw_copy_page,                 \* object -> the kind of page of its copy
  fw_visited,                   \* objects the evacuators have visited
  fw_aborted,                   \* the candidate page ran out of memory
  fw_updated,                   \* objects whose field UpdateSlot was run on
  fw_rewritten,                 \* objects whose field UpdateSlot rewrote
  fw_pc

forwardVars ==
  << fw_collector, fw_incremental, fw_page, fw_thin, fw_slot, fw_map_word,
     fw_copy_page, fw_visited, fw_aborted, fw_updated, fw_rewritten, fw_pc >>

ForwardedObjects == 1..NumForwarded

ForwardingQuiescent ==
  /\ fw_collector = "none"
  /\ fw_incremental = FALSE
  /\ fw_page = [o \in ForwardedObjects |-> "old"]
  /\ fw_thin = {}
  /\ fw_slot = [o \in ForwardedObjects |-> 0]
  /\ fw_map_word = [o \in ForwardedObjects |-> 0]
  /\ fw_copy_page = [o \in ForwardedObjects |-> "none"]
  /\ fw_visited = {}
  /\ fw_aborted = FALSE
  /\ fw_updated = {}
  /\ fw_rewritten = {}
  /\ fw_pc = "none"

\* The variables of the machines defined last, and these machines at rest.
finalVars ==
  << concurrencyVars, transitionVars, retainVars, finalizeVars,
     oldToNewVars, reportVars, promotionVars, historyVars, forwardVars >>
FinalQuiescent ==
  /\ ConcurrencyQuiescent
  /\ TransitionsQuiescent
  /\ RetainQuiescent
  /\ FinalizeQuiescent
  /\ OldToNewQuiescent
  /\ ReportsQuiescent
  /\ PromotionQuiescent
  /\ HistoryQuiescent
  /\ ForwardingQuiescent

weakVars == << barrierVars, collectionVars, finalVars >>

\* The collector outside a collection.
BarriersQuiescent ==
  /\ nonempty_worklists = {}
  /\ filled_by_marking = {}
  /\ remote_tracing_done = TRUE
  /\ barrier_pc = << >>

CollectionsQuiescent ==
  /\ table_entries = {}
  /\ entries_before = {}
  /\ weak_marked = {}
  /\ shared_objects = {}
  /\ is_shared_heap_ = FALSE
  /\ ephemeron_hash_tables = {}
  /\ tables_before = {}
  /\ ephemeron_remembered_set = {}
  /\ remembered_before = {}
  /\ weak_pc = "idle"

WeakQuiescent ==
  BarriersQuiescent /\ CollectionsQuiescent /\ FinalQuiescent

\* The variables of the machines defined after the evacuation machine, and
\* these machines at rest.
laterVars ==
  << nurseryVars, taskVars, youngMarkVars, selectVars, orderVars, weakVars >>
LaterQuiescent ==
  /\ NurseryQuiescent
  /\ TasksQuiescent
  /\ YoungMarkQuiescent
  /\ SelectQuiescent
  /\ OrderQuiescent
  /\ WeakQuiescent

\* The variables of these machines that each of them leaves alone.
besideNursery ==
  << taskVars, youngMarkVars, selectVars, orderVars, weakVars >>
besideTasks ==
  << nurseryVars, youngMarkVars, selectVars, orderVars, weakVars >>
besideYoungMark ==
  << nursery_collector, young_map_word, copy_space, promotion, young_marked,
     nursery_items, failed_allocation, nursery_pc, taskVars, selectVars,
     orderVars, weakVars >>
besideSelect ==
  << nurseryVars, taskVars, youngMarkVars, orderVars, weakVars >>
besideOrder ==
  << nurseryVars, taskVars, youngMarkVars, selectVars, weakVars >>
besideWeak ==
  << nurseryVars, taskVars, youngMarkVars, selectVars, orderVars, finalVars >>

\* The variables the machines defined last leave alone.
besideReports ==
  << nurseryVars, taskVars, youngMarkVars, selectVars, orderVars,
     barrierVars, collectionVars >>
besideFinal ==
  << besideReports, reportVars, promotionVars, historyVars, forwardVars >>

\* The variables of the machines other than the page-level one.
otherVars == << markVars, clearVars, objectVars, laterVars >>

vars == << cycleVars, otherVars >>

(***************************************************************************)
(* Sequence helpers.                                                       *)
(***************************************************************************)
Range(s) == {s[i] : i \in 1..Len(s)}

\* The sweeper's list once sweeping has completed (Prepare requires it).
NoSweeperPages == [p \in Pages |-> 0]

\* Sweeper::AddPage for each page of a set.
AddPages(list, added) ==
  [p \in Pages |-> IF p \in added THEN list[p] + 1 ELSE list[p]]

IsPrefix(s, t) == Len(s) <= Len(t) /\ SubSeq(t, 1, Len(s)) = s

NoJob == [kind |-> "none", pending |-> {}]

(***************************************************************************)
(* The collector fields that Prepare, StartCompaction and AbortCompaction  *)
(* read and write, as one record.                                          *)
(***************************************************************************)
Collector ==
  [state |-> state_, compacting |-> compacting_,
   cand |-> evacuation_candidates_, page_flags |-> page_flags,
   old_to_old |-> old_to_old]

SetCollector(c) ==
  /\ state_' = c.state
  /\ compacting_' = c.compacting
  /\ evacuation_candidates_' = c.cand
  /\ page_flags' = c.page_flags
  /\ old_to_old' = c.old_to_old

IsEvacuationCandidate(c, p) == EVACUATION_CANDIDATE \in c.page_flags[p]

\* Page::CanAllocate
CanAllocate(c, p) ==
  /\ ~IsEvacuationCandidate(c, p)
  /\ "NEVER_ALLOCATE_ON_PAGE" \notin c.page_flags[p]

\* MarkCompactCollector::AddEvacuationCandidate
AddEvacuationCandidate(c, p) ==
  [c EXCEPT !.page_flags[p] = @ \cup {EVACUATION_CANDIDATE},
            !.cand = Append(@, p)]

RECURSIVE AddEvacuationCandidates(_, _)
AddEvacuationCandidates(c, ps) ==
  IF ps = << >> THEN c
  ELSE AddEvacuationCandidates(AddEvacuationCandidate(c, Head(ps)), Tail(ps))

\* MarkCompactCollector::ComputeEvacuationHeuristics, with the heap in
\* regular mode and no compaction speed samples.
ComputeEvacuationHeuristics(mode) ==
  IF mode = "reduce_memory"
  THEN [target_fragmentation_percent |->
          kTargetFragmentationPercentForReduceMemory,
        max_evacuated_bytes |-> kMaxEvacuatedBytesForReduceMemory]
  ELSE IF mode = "optimize_for_memory"
  THEN [target_fragmentation_percent |->
          kTargetFragmentationPercentForOptimizeMemory,
        max_evacuated_bytes |-> kMaxEvacuatedBytesForOptimizeMemory]
  ELSE [target_fragmentation_percent |-> kTargetFragmentationPercent,
        max_evacuated_bytes |-> kMaxEvacuatedBytes]

\* The pages of a space that the selection loop keeps, in list order.
EligiblePages(c, space) ==
  LET h == ComputeEvacuationHeuristics(heap_mode)
      free_bytes_threshold ==
        h.target_fragmentation_percent * (AreaSize \div 100)
  IN {p \in PagesOf(space) \cap chunk_list :
        /\ NEVER_EVACUATE \notin c.page_flags[p]
        /\ p # lab_owner
        /\ CanAllocate(c, p)
        /\ PINNED \notin c.page_flags[p]
        /\ AreaSize - allocated_bytes[p] >= free_bytes_threshold}

\* The CHECKs of the selection loop on the pages it does not skip.
SelectionChecks(c, space) ==
  \A p \in PagesOf(space) \cap chunk_list :
     (/\ NEVER_EVACUATE \notin c.page_flags[p]
      /\ p # lab_owner
      /\ CanAllocate(c, p)
      /\ PINNED \notin c.page_flags[p])
     => (~IsEvacuationCandidate(c, p) /\ ~c.old_to_old[p])

\* The orders std::sort may leave the eligible pages in: ascending allocated
\* bytes, pages with equal keys in any order.
SortedOrders(S) ==
  {s \in [1..Cardinality(S) -> S] :
     /\ \A i, j \in 1..Cardinality(S) : i # j => s[i] # s[j]
     /\ \A i, j \in 1..Cardinality(S) :
          i < j => allocated_bytes[s[i]] <= allocated_bytes[s[j]]}

\* The greedy quota loop: counts the pages whose live bytes still fit.
RECURSIVE QuotaLoop(_, _, _, _)
QuotaLoop(sorted, i, candidate_count, total_live_bytes) ==
  IF i > Len(sorted)
  THEN [candidate_count |-> candidate_count,
        total_live_bytes |-> total_live_bytes]
  ELSE LET bytes == allocated_bytes[sorted[i]]
           max == ComputeEvacuationHeuristics(heap_mode).max_evacuated_bytes
       IN IF total_live_bytes + bytes <= max
          THEN QuotaLoop(sorted, i + 1, candidate_count + 1,
                         total_live_bytes + bytes)
          ELSE QuotaLoop(sorted, i + 1, candidate_count, total_live_bytes)

\* MarkCompactCollector::CollectEvacuationCandidates on the standard path:
\* the set of collector records it may produce.
CollectEvacuationCandidates(c, space) ==
  { LET q == QuotaLoop(sorted, 1, 0, 0)
        estimated_new_pages ==
          (q.total_live_bytes + AreaSize - 1) \div AreaSize
        estimated_released_pages == q.candidate_count - estimated_new_pages
        candidate_count ==
          IF estimated_released_pages = 0 THEN 0 ELSE q.candidate_count
    IN AddEvacuationCandidates(c, SubSeq(sorted, 1, candidate_count))
    : sorted \in SortedOrders(EligiblePages(c, space)) }

\* The bailouts of StartCompaction for completely disabled compaction.
CompactionDisabled(mode) ==
  \/ ~flags.compact
  \/ (mode = "kAtomic" /\ ~gc_without_stack /\ ~flags.compact_with_stack)

\* MarkCompactCollector::StartCompaction: the records it may produce.
StartCompaction(c, mode) ==
  IF CompactionDisabled(mode) THEN {c}
  ELSE LET olds == CollectEvacuationCandidates(c, "OLD_SPACE")
           both == IF flags.compact_code_space /\
                      (gc_without_stack \/ flags.compact_code_space_with_stack)
                   THEN UNION {CollectEvacuationCandidates(o, "CODE_SPACE") :
                               o \in olds}
                   ELSE olds
       IN {[b EXCEPT !.compacting = (b.cand # << >>)] : b \in both}

\* The DCHECKs and CHECKs on the way through StartCompaction.
StartCompactionChecks(c, mode) ==
  /\ ~c.compacting
  /\ c.cand = << >>
  /\ CompactionDisabled(mode) \/
       (SelectionChecks(c, "OLD_SPACE") /\ SelectionChecks(c, "CODE_SPACE"))

AbortCompactionKeepsList(c) == [c EXCEPT !.compacting = FALSE]
AbortCompactionKeepsFlags(c) ==
  [c EXCEPT !.old_to_old = [p \in Pages |-> FALSE],
            !.compacting = FALSE,
            !.cand = << >>]

\* MarkCompactCollector::AbortCompaction
AbortCompaction(c) ==
  IF c.compacting
  THEN [c EXCEPT
          !.old_to_old = [p \in Pages |-> FALSE],
          !.page_flags =
             [p \in Pages |->
                IF p \in Range(c.cand) THEN @[p] \ {EVACUATION_CANDIDATE}
                ELSE @[p]],
          !.compacting = FALSE,
          !.cand = << >>]
  ELSE c

\* The DCHECK that closes AbortCompaction.
AbortCompactionChecks(c) == AbortCompaction(c).cand = << >>

PrepareAlwaysCompacts(c) ==
  StartCompaction([c EXCEPT !.state = PREPARE_GC], "kAtomic")

\* MarkCompactCollector::Prepare: the records it may produce.
Prepare(c) ==
  LET c1 == [c EXCEPT !.state = PREPARE_GC]
  IN IF ~is_marking THEN StartCompaction(c1, "kAtomic") ELSE {c1}

PrepareChecks(c) ==
  /\ c.state = IDLE
  /\ ~is_marking => StartCompactionChecks(c, "kAtomic")

(***************************************************************************)
(* The page-level machine.                                                 *)
(***************************************************************************)
envVars ==
  << gc_without_stack, heap_mode, lab_owner, flags, allocated_bytes,
     otherVars >>
collVars ==
  << state_, compacting_, evacuation_candidates_, page_flags, old_to_old >>
evacVars == << old_space_evacuation_pages_, aborted_oom, aborted_flags >>
sweepVars == << chunk_list, sweeper_pages, released_pages >>
ghostVars == << state_history, phase_log >>

\* One page at most starts with a property that keeps it from being selected.
SpecialChoices == {"none", NEVER_EVACUATE, PINNED, "lab"}

\* The state after construction, on a heap drawn from the given choices.
InitPages(specials, modes, configurations, budget) ==
  /\ state_ = IDLE
  /\ compacting_ = FALSE
  /\ evacuation_candidates_ = << >>
  /\ old_space_evacuation_pages_ = << >>
  /\ aborted_oom = {}
  /\ aborted_flags = {}
  /\ \E special \in specials :
       /\ page_flags = [p \in Pages |->
                          IF p = 1 /\ special \in {NEVER_EVACUATE, PINNED}
                          THEN {special} ELSE {}]
       /\ lab_owner = IF special = "lab" THEN 1 ELSE 0
  /\ allocated_bytes \in [Pages -> AllocatedChoices]
  /\ live_bytes = [p \in Pages |-> 0]
  /\ old_to_old = [p \in Pages |-> FALSE]
  /\ chunk_list = Pages
  /\ sweeper_pages = NoSweeperPages
  /\ released_pages = {}
  /\ is_marking = FALSE
  /\ heap_mode \in modes
  /\ \E cf \in configurations :
       gc_without_stack = cf.stackless /\ flags = cf.flags
  /\ pc = "idle"
  /\ caller = "none"
  /\ job = NoJob
  /\ state_history = << IDLE >>
  /\ phase_log = << >>
  /\ rejected = "none"
  /\ invoked = "none"
  /\ calls_left = budget

\* The page-level machine after construction, the other machines at rest.
InitWith(specials, modes, configurations, budget) ==
  /\ InitPages(specials, modes, configurations, budget)
  /\ MarkQuiescent
  /\ ClearQuiescent
  /\ EvacQuiescent
  /\ LaterQuiescent

\* The pages of a set as a sequence, in ascending order.
RECURSIVE Ascending(_)
Ascending(S) ==
  IF S = {} THEN << >>
  ELSE LET least == CHOOSE p \in S : \A q \in S : p <= q
       IN << least >> \o Ascending(S \ {least})

\* The page-level machine between two phases in a collector state, with the
\* evacuation candidates chosen, as the other machines leave it.  Once
\* EvacuatePrologue has run the candidates are old_space_evacuation_pages_.
PagesBetweenPhases(collector_state, candidates, prologue_done, configuration) ==
  /\ state_ = collector_state
  /\ compacting_ = (candidates # {})
  /\ evacuation_candidates_ =
       IF prologue_done THEN << >> ELSE Ascending(candidates)
  /\ old_space_evacuation_pages_ =
       IF prologue_done THEN Ascending(candidates) ELSE << >>
  /\ aborted_oom = {}
  /\ aborted_flags = {}
  /\ page_flags = [p \in Pages |->
                     IF p \in candidates THEN {EVACUATION_CANDIDATE} ELSE {}]
  /\ lab_owner = 0
  /\ allocated_bytes = [p \in Pages |-> 16]
  /\ live_bytes = [p \in Pages |-> 0]
  /\ old_to_old = [p \in Pages |-> FALSE]
  /\ chunk_list = Pages
  /\ sweeper_pages = NoSweeperPages
  /\ released_pages = {}
  /\ is_marking = FALSE
  /\ heap_mode = "regular"
  /\ gc_without_stack = configuration.stackless
  /\ flags = configuration.flags
  /\ pc = "idle"
  /\ caller = "none"
  /\ job = NoJob
  /\ state_history = << collector_state >>
  /\ phase_log = << >>
  /\ rejected = "none"
  /\ invoked = "none"
  /\ calls_left = 0

\* The same with no stack to scan and every flag set.
PagesAtRest(collector_state, candidates) ==
  PagesBetweenPhases(collector_state, candidates, FALSE,
                     [stackless |-> TRUE, flags |-> AllFlags])

PagesQuiescent == PagesAtRest(IDLE, {})

InitCycle ==
  InitWith({"none"}, {"regular"}, Configurations, MaxCalls)

\* Where a phase returns to: the next phase of CollectGarbage, or the harness.
Return(next) == IF caller = "CollectGarbage" THEN next ELSE "idle"

\* A failed DCHECK or CHECK aborts the process.
Reject(function) ==
  /\ rejected' = function
  /\ pc' = "crashed"

\* The pages a marker may record an OLD_TO_OLD slot on: RecordSlot skips hosts
\* that are evacuation candidates and targets that are not.
RecordableHosts(c) ==
  IF c.cand = << >> THEN {}
  ELSE {p \in chunk_list : ~IsEvacuationCandidate(c, p)}

RecordSlots(c, S) ==
  [c EXCEPT !.old_to_old = [p \in Pages |-> @[p] \/ p \in S]]

RecordChoices(c) ==
  {{}, RecordableHosts(c)} \cup {{q} : q \in RecordableHosts(c)}

\* IncrementalMarking::Start: begins marking and selects candidates.
StartIncrementalMarking ==
  /\ pc = "idle" /\ state_ = IDLE /\ ~is_marking /\ calls_left > 0
  /\ StartCompactionChecks(Collector, "kIncremental")
  /\ \E c \in StartCompaction(Collector, "kIncremental") : SetCollector(c)
  /\ is_marking' = TRUE
  /\ calls_left' = calls_left - 1
  /\ invoked' = "StartIncrementalMarking"
  /\ UNCHANGED << envVars, evacVars, sweepVars, ghostVars, live_bytes, pc,
                  caller, job, rejected >>

\* A step of the incremental marker records a slot.
IncrementalMarkingStep ==
  /\ pc = "idle" /\ is_marking
  /\ \E q \in RecordableHosts(Collector) :
       /\ ~old_to_old[q]
       /\ SetCollector(RecordSlots(Collector, {q}))
  /\ UNCHANGED << envVars, evacVars, sweepVars, ghostVars, live_bytes, pc,
                  caller, job, rejected, is_marking, calls_left, invoked >>

\* A call of AbortCompaction between the operations of the collector.
CallAbortCompaction ==
  /\ pc = "idle" /\ calls_left > 0
  /\ calls_left' = calls_left - 1
  /\ invoked' = "AbortCompaction"
  /\ IF AbortCompactionChecks(Collector)
     THEN /\ SetCollector(AbortCompaction(Collector))
          /\ UNCHANGED << pc, rejected >>
     ELSE /\ Reject("AbortCompaction")
          /\ UNCHANGED collVars
  /\ UNCHANGED << envVars, evacVars, sweepVars, ghostVars, live_bytes,
                  caller, job, is_marking >>

\* A call of Prepare that hands control to next_pc on return.
CallPrepare(next_pc, who) ==
  /\ pc = "idle" /\ calls_left > 0
  /\ calls_left' = calls_left - 1
  /\ invoked' = "Prepare"
  /\ caller' = who
  /\ phase_log' = << "Prepare" >>
  /\ IF PrepareChecks(Collector)
     THEN /\ \E c \in Prepare(Collector) : SetCollector(c)
          /\ state_history' = << state_, state_' >>
          /\ sweeper_pages' = NoSweeperPages
          /\ pc' = next_pc
          /\ UNCHANGED rejected
     ELSE /\ Reject(IF state_ # IDLE THEN "Prepare" ELSE "StartCompaction")
          /\ UNCHANGED << collVars, state_history, sweeper_pages >>
  /\ UNCHANGED << envVars, evacVars, chunk_list, released_pages, live_bytes,
                  job, is_marking >>

\* Heap::MarkCompact: Prepare, then CollectGarbage.
HeapPrepare == CallPrepare("CollectGarbage", "CollectGarbage")

\* MarkCompactCollector::CollectGarbage, up to its first phase.
CollectGarbage ==
  /\ pc = "CollectGarbage"
  /\ IF state_ = PREPARE_GC
     THEN pc' = "MarkLiveObjects" /\ UNCHANGED rejected
     ELSE Reject("CollectGarbage")
  /\ UNCHANGED << envVars, collVars, evacVars, sweepVars, ghostVars,
                  live_bytes, caller, job, is_marking, calls_left, invoked >>

(***************************************************************************)
(* Jobs: PostJob creates the items, a worker (or the joining thread) takes *)
(* a pending item and runs it, Join returns when no item is left.          *)
(***************************************************************************)
PostJob(kind, items) ==
  IF items = {} THEN NoJob
  ELSE [kind |-> kind, pending |-> items]

JoinReturnsEarly == TRUE

\* JobHandle::Join
Joined == job.pending = {}

\* The job once the handle is joined.
JoinedJob == [job EXCEPT !.kind = "none"]

ItemDone(i) == [job EXCEPT !.pending = @ \ {i}]

\* The state written on entry to MarkLiveObjects.
MarkLiveObjectsOpDropsCandidates(c) ==
  [c EXCEPT !.state = MARK_LIVE_OBJECTS, !.cand = << >>]
MarkLiveObjectsOp(c) == [c EXCEPT !.state = MARK_LIVE_OBJECTS]

\* MarkCompactCollector::MarkLiveObjects, up to the start of parallel marking.
MarkLiveObjects ==
  /\ pc = "MarkLiveObjects"
  /\ is_marking' = FALSE
  /\ phase_log' = Append(phase_log, "MarkLiveObjects")
  /\ IF state_ = PREPARE_GC
     THEN /\ SetCollector(MarkLiveObjectsOp(Collector))
          /\ state_history' = Append(state_history, state_')
          /\ job' = IF flags.parallel_marking
                    THEN PostJob("marking", Workers) ELSE NoJob
          /\ pc' = IF flags.parallel_marking
                   THEN "FinishConcurrentMarking" ELSE "MarkTransitiveClosure"
          /\ UNCHANGED rejected
     ELSE /\ Reject("MarkLiveObjects")
          /\ UNCHANGED << collVars, state_history, job >>
  /\ UNCHANGED << envVars, evacVars, sweepVars, live_bytes, caller, calls_left,
                  invoked >>

\* A task of the parallel marking job runs to its end.
MarkingTask ==
  /\ job.kind = "marking"
  /\ \E i \in job.pending :
       job' = ItemDone(i)
  /\ UNCHANGED << envVars, collVars, evacVars, sweepVars, ghostVars, live_bytes, pc,
                  caller, is_marking, calls_left, invoked, rejected >>

\* MarkCompactCollector::FinishConcurrentMarking
FinishConcurrentMarking ==
  /\ pc = "FinishConcurrentMarking"
  /\ Joined
  /\ job' = JoinedJob
  /\ pc' = "MarkTransitiveClosure"
  /\ UNCHANGED << envVars, collVars, evacVars, sweepVars, ghostVars,
                  live_bytes, caller, is_marking, calls_left, invoked, rejected >>

\* The sets of pages marking may find without live objects.
DeadChoices == {{}} \cup {PagesOf(sp) : sp \in Spaces}

\* The rest of MarkLiveObjects: the closure on the main thread.
MarkTransitiveClosure ==
  /\ pc = "MarkTransitiveClosure"
  /\ \E S \in RecordChoices(Collector) :
       SetCollector(RecordSlots(Collector, S))
  /\ \E dead \in DeadChoices :
       live_bytes' = [p \in Pages |->
                        IF p \in chunk_list /\ p \notin dead
                        THEN allocated_bytes[p] ELSE 0]
  /\ pc' = Return("ClearNonLiveReferences")
  /\ UNCHANGED << envVars, evacVars, sweepVars, ghostVars, caller, job,
                  is_marking, calls_left, invoked, rejected >>

\* MarkCompactCollector::ClearNonLiveReferences, up to the posting of the
\* string table clearing job.
ClearNonLiveReferences ==
  /\ pc = "ClearNonLiveReferences"
  /\ phase_log' = Append(phase_log, "ClearNonLiveReferences")
  /\ job' = PostJob("clearing", {1})
  /\ pc' = "ClearNonLiveReferencesJoin"
  /\ UNCHANGED << envVars, collVars, evacVars, sweepVars, state_history,
                  live_bytes, caller, is_marking, calls_left, invoked, rejected >>

\* The string table clearing task.
ClearStringTableTask ==
  /\ job.kind = "clearing"
  /\ \E i \in job.pending : job' = ItemDone(i)
  /\ UNCHANGED << envVars, collVars, evacVars, sweepVars, ghostVars,
                  live_bytes, pc, caller, is_marking, calls_left, invoked,
                  rejected >>

\* The end of ClearNonLiveReferences: the job is joined.
ClearNonLiveReferencesJoin ==
  /\ pc = "ClearNonLiveReferencesJoin"
  /\ Joined
  /\ job' = JoinedJob
  /\ pc' = Return("VerifyMarking")
  /\ UNCHANGED << envVars, collVars, evacVars, sweepVars, ghostVars,
                  live_bytes, caller, is_marking, calls_left, invoked, rejected >>

\* MarkCompactCollector::VerifyMarking
VerifyMarking ==
  /\ pc = "VerifyMarking"
  /\ phase_log' = Append(phase_log, "VerifyMarking")
  /\ IF ~is_marking
     THEN pc' = Return("StartSweepSpaces") /\ UNCHANGED rejected
     ELSE Reject("VerifyMarking")
  /\ UNCHANGED << envVars, collVars, evacVars, sweepVars, state_history,
                  live_bytes, caller, job, is_marking, calls_left, invoked >>

\* The pages of a space StartSweepSpace releases: all pages without live
\* bytes but the first.
Min(S) == CHOOSE x \in S : \A y \in S : x <= y

ReleasedBySweep(c, space) ==
  LET unused == {p \in PagesOf(space) \cap chunk_list :
                   ~IsEvacuationCandidate(c, p) /\ live_bytes[p] = 0}
  IN IF unused = {} THEN {} ELSE unused \ {Min(unused)}

SweptPages(c, space) ==
  {p \in PagesOf(space) \cap chunk_list : ~IsEvacuationCandidate(c, p)}
    \ ReleasedBySweep(c, space)

\* The DCHECK of StartSweepSpace on a candidate page.
StartSweepSpaceChecks(c) ==
  \A p \in chunk_list : IsEvacuationCandidate(c, p) => c.cand # << >>

StartSweepSpacesKeepsState(c) == c

\* The state written by StartSweepSpaces.
StartSweepSpacesOp(c) == [c EXCEPT !.state = SWEEP_SPACES]

\* MarkCompactCollector::StartSweepSpaces
StartSweepSpaces ==
  /\ pc = "StartSweepSpaces"
  /\ phase_log' = Append(phase_log, "StartSweepSpaces")
  /\ IF StartSweepSpaceChecks(Collector)
     THEN /\ SetCollector(StartSweepSpacesOp(Collector))
          /\ state_history' = Append(state_history, state_')
          /\ LET released ==
                   UNION {ReleasedBySweep(Collector, sp) : sp \in Spaces}
                 swept == UNION {SweptPages(Collector, sp) : sp \in Spaces}
             IN /\ chunk_list' = chunk_list \ released
                /\ released_pages' = released_pages \cup released
                /\ sweeper_pages' = AddPages(sweeper_pages, swept)
          /\ pc' = Return("Evacuate")
          /\ UNCHANGED rejected
     ELSE /\ Reject("StartSweepSpace")
          /\ UNCHANGED << collVars, sweepVars, state_history >>
  /\ UNCHANGED << envVars, evacVars, live_bytes, caller, job, is_marking,
                  calls_left, invoked >>

\* MarkCompactCollector::EvacuatePrologue, entered from Evacuate.
EvacuatePrologue ==
  /\ pc = "Evacuate"
  /\ phase_log' = phase_log \o << "Evacuate", "EvacuatePrologue" >>
  /\ IF old_space_evacuation_pages_ = << >>
     THEN /\ old_space_evacuation_pages_' = evacuation_candidates_
          /\ evacuation_candidates_' = << >>
          /\ pc' = "EvacuatePagesInParallel"
          /\ UNCHANGED rejected
     ELSE /\ Reject("EvacuatePrologue")
          /\ UNCHANGED << old_space_evacuation_pages_,
                          evacuation_candidates_ >>
  /\ UNCHANGED << envVars, state_, compacting_, page_flags, old_to_old,
                  aborted_oom, aborted_flags, sweepVars, state_history,
                  live_bytes, caller, job, is_marking, calls_left, invoked >>

AbortedDueToFlagsCodeOnly ==
  IF ~gc_without_stack /\
     (~flags.compact_with_stack \/ ~flags.compact_code_space_with_stack)
  THEN {p \in Range(old_space_evacuation_pages_) :
          PageOwner(p) = "CODE_SPACE"}
  ELSE {}
\* The candidates EvacuatePagesInParallel aborts because of the stack flags.
AbortedDueToFlags ==
  IF ~gc_without_stack /\
     (~flags.compact_with_stack \/ ~flags.compact_code_space_with_stack)
  THEN {p \in Range(old_space_evacuation_pages_) :
          ~flags.compact_with_stack \/ PageOwner(p) = "CODE_SPACE"}
  ELSE {}

\* The variables outside the page-level machine other than the promotion
\* flags of the nursery pages and the record of the last evacuation.
envBesidePromotion ==
  << gc_without_stack, heap_mode, lab_owner, flags, allocated_bytes,
     markVars, clearVars, objectVars, nursery_collector, young_color,
     young_live_bytes, young_map_word, copy_space, young_marked,
     nursery_items, failed_allocation, nursery_pc, taskVars, youngMarkVars,
     selectVars, orderVars, barrierVars, collectionVars, concurrencyVars,
     transitionVars, retainVars, finalizeVars, oldToNewVars, reportVars,
     promotionVars, forwardVars >>

\* The nursery pages of the page-level machine: ShouldMovePage may hold of
\* the first page.
MovablePages == {1}

\* MarkCompactCollector::EvacuatePagesInParallel, up to the posting of the
\* page evacuation job.
EvacuatePagesInParallel ==
  /\ pc = "EvacuatePagesInParallel"
  /\ phase_log' = Append(phase_log, "EvacuatePagesInParallel")
  /\ \E moved \in SUBSET MovablePages :
       /\ promotion' = [p \in Pages |->
                          IF p \in moved THEN "PAGE_NEW_OLD_PROMOTION"
                          ELSE promotion[p]]
       /\ cycle_promoted' = moved
  /\ aborted_flags' = aborted_flags \cup AbortedDueToFlags
  /\ page_flags' =
       [p \in Pages |->
          IF p \in AbortedDueToFlags
          THEN page_flags[p] \cup {COMPACTION_WAS_ABORTED} ELSE page_flags[p]]
  /\ job' = PostJob("evacuation",
                    {p \in Range(old_space_evacuation_pages_) :
                       COMPACTION_WAS_ABORTED \notin page_flags'[p]})
  /\ pc' = "PostProcessEvacuationCandidates"
  /\ UNCHANGED << envBesidePromotion, cycle_aborted, state_, compacting_,
                  evacuation_candidates_,
                  old_to_old, old_space_evacuation_pages_, aborted_oom,
                  sweepVars, state_history, live_bytes, caller, is_marking,
                  calls_left, invoked, rejected >>

\* The pages the copies of the objects of page p may land on.
Destinations(p) ==
  {q \in chunk_list :
     PageOwner(q) = PageOwner(p) /\ CanAllocate(Collector, q)}

\* FullEvacuator::RawEvacuatePage on an old-space candidate: every object is
\* copied, or an allocation fails and the page is reported as aborted.
EvacuatePage ==
  /\ job.kind = "evacuation"
  /\ \E p \in job.pending :
       /\ job' = ItemDone(p)
       /\ \E oom \in {b \in BOOLEAN : b => live_bytes[p] > 0} :
            IF oom
            THEN /\ aborted_oom' = aborted_oom \cup {p}
                 /\ IF flags.crash_on_aborted_evacuation
                    THEN Reject("FatalProcessOutOfMemory")
                    ELSE UNCHANGED << pc, rejected >>
                 /\ UNCHANGED old_to_old
            ELSE /\ \E S \in {{}} \cup {{q} : q \in Destinations(p)} :
                      old_to_old' = [q \in Pages |-> old_to_old[q] \/ q \in S]
                 /\ UNCHANGED << aborted_oom, pc, rejected >>
  /\ UNCHANGED << envVars, state_, compacting_, evacuation_candidates_,
                  page_flags, old_space_evacuation_pages_, aborted_flags,
                  sweepVars, ghostVars, live_bytes, caller, is_marking, calls_left,
                  invoked >>

\* MarkCompactCollector::PostProcessEvacuationCandidates, run once the
\* evacuation job is joined.
PostProcessEvacuationCandidates ==
  /\ pc = "PostProcessEvacuationCandidates"
  /\ Joined
  /\ job' = JoinedJob
  /\ LET aborted == aborted_oom \cup aborted_flags
         evacuated == Range(old_space_evacuation_pages_) \ aborted
     IN /\ page_flags' =
             [p \in Pages |->
                IF p \in aborted /\ p \in Range(old_space_evacuation_pages_)
                THEN (page_flags[p] \cup {COMPACTION_WAS_ABORTED})
                       \ {EVACUATION_CANDIDATE}
                ELSE IF p \in aborted
                THEN page_flags[p] \cup {COMPACTION_WAS_ABORTED}
                ELSE page_flags[p]]
        /\ \E R \in {{}, aborted} :
             old_to_old' = [p \in Pages |-> old_to_old[p] \/ p \in R]
        /\ chunk_list' = chunk_list \ evacuated
        /\ cycle_aborted' =
             {p \in Range(old_space_evacuation_pages_) :
                COMPACTION_WAS_ABORTED \in page_flags'[p]}
  /\ pc' = "UpdatePointersAfterEvacuation"
  /\ UNCHANGED << envBesidePromotion, promotion, cycle_promoted, state_,
                  compacting_, evacuation_candidates_,
                  evacVars, sweeper_pages, released_pages, ghostVars,
                  live_bytes, caller, is_marking, calls_left, invoked, rejected >>

\* CollectRememberedSetUpdatingItems over the spaces, mode ALL.
RememberedSetUpdatingItems == {p \in chunk_list : old_to_old[p]}

\* MarkCompactCollector::UpdatePointersAfterEvacuation, up to the posting of
\* the pointer updating job.
UpdatePointersAfterEvacuation ==
  /\ pc = "UpdatePointersAfterEvacuation"
  /\ phase_log' = Append(phase_log, "UpdatePointersAfterEvacuation")
  /\ job' = PostJob("updating", RememberedSetUpdatingItems)
  /\ pc' = "UpdatePointersJoin"
  /\ UNCHANGED << envVars, collVars, evacVars, sweepVars, state_history,
                  live_bytes, caller, is_marking, calls_left, invoked, rejected >>

\* The slot set of a chunk after RememberedSetUpdatingItem::Process.
UpdateUntypedPointers(has_slots) == FALSE

\* RememberedSetUpdatingItem::Process on one chunk.
RememberedSetUpdatingItem ==
  /\ job.kind = "updating"
  /\ \E p \in job.pending :
       /\ job' = ItemDone(p)
       /\ old_to_old' =
            [old_to_old EXCEPT ![p] = UpdateUntypedPointers(@)]
  /\ UNCHANGED << envVars, state_, compacting_, evacuation_candidates_,
                  page_flags, evacVars, sweepVars, ghostVars, live_bytes, pc,
                  caller, is_marking, calls_left, invoked, rejected >>

\* The end of UpdatePointersAfterEvacuation: the job is joined.
UpdatePointersJoin ==
  /\ pc = "UpdatePointersJoin"
  /\ Joined
  /\ job' = JoinedJob
  /\ pc' = "EvacuateCleanUp"
  /\ UNCHANGED << envVars, collVars, evacVars, sweepVars, ghostVars,
                  live_bytes, caller, is_marking, calls_left, invoked, rejected >>

\* The clean-up block of Evacuate: the promoted pages lose their flag, and
\* the aborted pages lose theirs and go to the sweeper.
EvacuateCleanUp ==
  /\ pc = "EvacuateCleanUp"
  /\ promotion' = [p \in Pages |->
                     IF promotion[p] = "PAGE_NEW_OLD_PROMOTION" THEN "none"
                     ELSE promotion[p]]
  /\ LET aborted == {p \in Range(old_space_evacuation_pages_) :
                       COMPACTION_WAS_ABORTED \in page_flags[p]}
     IN /\ sweeper_pages' = AddPages(sweeper_pages, aborted)
        /\ page_flags' =
             [p \in Pages |->
                IF p \in aborted
                THEN page_flags[p] \ {COMPACTION_WAS_ABORTED}
                ELSE page_flags[p]]
  /\ pc' = "EvacuateEpilogue"
  /\ UNCHANGED << envBesidePromotion, historyVars, state_, compacting_,
                  evacuation_candidates_,
                  old_to_old, evacVars, chunk_list, released_pages,
                  ghostVars, live_bytes, caller, job, is_marking, calls_left,
                  invoked, rejected >>

ReleaseEvacuationCandidatesAll ==
  Range(old_space_evacuation_pages_)
\* MarkCompactCollector::ReleaseEvacuationCandidates: the pages it releases.
ReleaseEvacuationCandidates ==
  {p \in Range(old_space_evacuation_pages_) :
     EVACUATION_CANDIDATE \in page_flags[p]}

\* MarkCompactCollector::EvacuateEpilogue
EvacuateEpilogue ==
  /\ pc = "EvacuateEpilogue"
  /\ phase_log' = Append(phase_log, "EvacuateEpilogue")
  /\ aborted_oom' = {}
  /\ aborted_flags' = {}
  /\ released_pages' = released_pages \cup ReleaseEvacuationCandidates
  /\ live_bytes' = [p \in Pages |->
                      IF p \in ReleaseEvacuationCandidates THEN 0
                      ELSE live_bytes[p]]
  /\ old_space_evacuation_pages_' = << >>
  /\ compacting_' = FALSE
  /\ IF \A p \in chunk_list : ~old_to_old[p]
     THEN pc' = Return("Finish") /\ UNCHANGED rejected
     ELSE Reject("EvacuateEpilogue")
  /\ UNCHANGED << envVars, state_, evacuation_candidates_, page_flags,
                  old_to_old, chunk_list, sweeper_pages, state_history,
                  caller, job, is_marking, calls_left, invoked >>

FinishAcceptsAnyState(c) == TRUE

\* The state check of Finish.
FinishChecks(c) == c.state = SWEEP_SPACES \/ c.state = RELOCATE_OBJECTS

\* The state written by Finish.
FinishOp(c) == [c EXCEPT !.state = IDLE]

\* MarkCompactCollector::Finish
Finish ==
  /\ pc = "Finish"
  /\ phase_log' = Append(phase_log, "Finish")
  /\ IF FinishChecks(Collector)
     THEN /\ SetCollector(FinishOp(Collector))
          /\ state_history' = Append(state_history, state_')
          /\ pc' = "idle"
          /\ UNCHANGED rejected
     ELSE /\ Reject("Finish")
          /\ UNCHANGED << collVars, state_history >>
  /\ UNCHANGED << envVars, evacVars, sweepVars, live_bytes, caller, job,
                  is_marking, calls_left, invoked >>

(***************************************************************************)
(* The two page-level specifications.                                      *)
(***************************************************************************)
\* The steps of the phases, wherever they were called from.
PhaseSteps ==
  \/ MarkLiveObjects
  \/ MarkingTask
  \/ FinishConcurrentMarking
  \/ MarkTransitiveClosure
  \/ ClearNonLiveReferences
  \/ ClearStringTableTask
  \/ ClearNonLiveReferencesJoin
  \/ VerifyMarking
  \/ StartSweepSpaces
  \/ EvacuatePrologue
  \/ EvacuatePagesInParallel
  \/ EvacuatePage
  \/ PostProcessEvacuationCandidates
  \/ UpdatePointersAfterEvacuation
  \/ RememberedSetUpdatingItem
  \/ UpdatePointersJoin
  \/ EvacuateCleanUp
  \/ EvacuateEpilogue
  \/ Finish

NextCycle ==
  \/ StartIncrementalMarking
  \/ IncrementalMarkingStep
  \/ CallAbortCompaction
  \/ HeapPrepare
  \/ CollectGarbage
  \/ PhaseSteps

SpecCycle == InitCycle /\ [][NextCycle]_vars

\* The calls the harness makes when progress is checked: one collection.
MaxFairCalls == 1

\* Without a stack to scan, so that no candidate is ruled out by the flags.
InitCycleFair ==
  InitWith({"none"}, {"regular"},
           {cf \in Configurations : cf.stackless}, MaxFairCalls)

\* The machine of the cycle with the main thread and the workers never
\* stopping inside a phase: a collection that has begun takes its next step.
SpecCycleFair ==
  InitCycleFair /\ [][NextCycle]_vars /\ WF_vars(PhaseSteps)

\* The phases a test harness can call on their own.
Phases ==
  {"MarkLiveObjects", "ClearNonLiveReferences", "VerifyMarking",
   "StartSweepSpaces", "Evacuate", "Finish"}

InvokePrepare == CallPrepare("idle", "harness")

InvokePhase ==
  /\ pc = "idle" /\ calls_left > 0
  /\ \E ph \in Phases :
       /\ pc' = ph
       /\ invoked' = ph
  /\ caller' = "harness"
  /\ calls_left' = calls_left - 1
  /\ UNCHANGED << envVars, collVars, evacVars, sweepVars, ghostVars,
                  live_bytes, job, is_marking, rejected >>

NextPhases ==
  \/ StartIncrementalMarking
  \/ IncrementalMarkingStep
  \/ CallAbortCompaction
  \/ InvokePrepare
  \/ InvokePhase
  \/ PhaseSteps

InitPhases ==
  InitWith({"none"}, {"regular"},
           {cf \in Configurations : cf.flags = AllFlags},
           MaxPhaseCalls)

SpecPhases == InitPhases /\ [][NextPhases]_vars

\* The collector on a wide choice of heaps, with Prepare and AbortCompaction
\* only.
InitPrepare ==
  InitWith(SpecialChoices, {"regular", "reduce_memory"}, Configurations,
           MaxCalls)

NextPrepare ==
  \/ StartIncrementalMarking
  \/ IncrementalMarkingStep
  \/ CallAbortCompaction
  \/ InvokePrepare

SpecPrepare == InitPrepare /\ [][NextPrepare]_vars

(***************************************************************************)
(* Object-level marking: MarkLiveObjects and the functions below it.       *)
(***************************************************************************)
\* The heaps marking is run on.  Strong references run along a chain, the
\* first table holds an ephemeron chain, the last object holds an ephemeron
\* keyed by the first.
RootChoices == {{1}, {1, 2}}
StrongCandidates == {<< i, i + 1 >> : i \in 1..(NumObjects - 1)}
EphemeronCandidates ==
  {[table |-> 1, key |-> i, value |-> i + 1] : i \in 2..(NumObjects - 1)}
    \cup {[table |-> NumObjects, key |-> 1, value |-> 2]}

\* What was marked before MarkLiveObjects began: nothing; one object that
\* incremental marking left grey on the worklist; a filler that left trimming
\* put there (ProcessMarkingWorklist, lines 2230-2245); or a table that
\* incremental marking visited, its ephemerons left in next_ephemerons
\* (MarkTransitiveClosure, lines 2310-2312).
PreStates ==
  {[kind |-> "clean", object |-> 0, color |-> White]}
    \cup {[kind |-> "grey", object |-> o, color |-> Grey] :
            o \in {2, NumObjects}}
    \cup {[kind |-> "filler", object |-> NumObjects, color |-> c] :
            c \in {Grey, Black}}
    \cup {[kind |-> "table", object |-> t, color |-> Black] :
            t \in {1, NumObjects}}

\* No reference leads to or from the object.
Isolated(o) ==
  /\ o \notin roots
  /\ \A r \in strong : r[1] # o /\ r[2] # o
  /\ \A e \in ephemerons : e.table # o /\ e.key # o /\ e.value # o

\* The marking state the visitor and ProcessEphemeron work on, as one record.
MarkState ==
  [color |-> color, worklist |-> marking_worklist,
   discovered |-> discovered_ephemerons, next |-> next_ephemerons]

SetMarkState(m) ==
  /\ color' = m.color
  /\ marking_worklist' = m.worklist
  /\ discovered_ephemerons' = m.discovered
  /\ next_ephemerons' = m.next

\* MarkObject: WhiteToGrey and a push on the marking worklist.
MarkObjects(m, targets) ==
  LET white == {o \in targets : m.color[o] = White}
  IN [m EXCEPT !.color = [o \in Objects |->
                            IF o \in white THEN Grey ELSE m.color[o]],
               !.worklist = m.worklist \cup white]

\* MarkingVisitor::Visit of an object popped from the worklist: the object
\* turns black, its strong referents are marked; of a table's entries, the
\* value of a marked key is marked and an entry with a white key and a white
\* value becomes a discovered ephemeron.
Visit(m, object) ==
  LET referents == {r[2] : r \in {s \in strong : s[1] = object}}
      entries == {e \in ephemerons : e.table = object}
      marked_keys == {e \in entries : m.color[e.key] # White}
      m1 == MarkObjects(m, referents \cup {e.value : e \in marked_keys})
  IN [m1 EXCEPT !.color[object] = Black,
                !.worklist = m1.worklist \ {object},
                !.discovered =
                   m.discovered \cup
                     {e \in entries \ marked_keys : m.color[e.value] = White}]

ProcessEphemeronDropsPending(m, e) ==
  IF m.color[e.key] # White
  THEN [m |-> MarkObjects(m, {e.value}), marked |-> m.color[e.value] = White]
  ELSE [m |-> m, marked |-> FALSE]
ProcessEphemeronKeepsPair(m, e) ==
  IF m.color[e.key] # White
  THEN [m |-> MarkObjects(m, {e.value}), marked |-> m.color[e.value] = White]
  ELSE [m |-> [m EXCEPT !.next = m.next \cup {e}], marked |-> FALSE]
\* MarkCompactCollector::ProcessEphemeron: the new marking state, and whether
\* the value was marked.
ProcessEphemeron(m, e) ==
  IF m.color[e.key] # White
  THEN [m |-> MarkObjects(m, {e.value}), marked |-> m.color[e.value] = White]
  ELSE IF m.color[e.value] = White
       THEN [m |-> [m EXCEPT !.next = m.next \cup {e}], marked |-> FALSE]
       ELSE [m |-> m, marked |-> FALSE]

\* MarkCompactCollector::AddNewlyDiscovered, on the record of the newly
\* discovered objects.
AddNewlyDiscovered(n, object) ==
  IF n.overflowed
  THEN n
  ELSE IF Cardinality(n.objects) < n.limit
       THEN [n EXCEPT !.objects = n.objects \cup {object}]
       ELSE [n EXCEPT !.overflowed = TRUE]

NewlyDiscovered ==
  [objects |-> newly_discovered, limit |-> newly_discovered_limit,
   overflowed |-> newly_discovered_overflowed]

\* The insertion into key_to_values that follows ProcessEphemeron in
\* MarkTransitiveClosureLinear.
InsertKeyToValues(m, e) ==
  IF m.color[e.value] = White
  THEN key_to_values \cup {<< e.key, e.value >>}
  ELSE key_to_values

LinearEphemeronStepTrackedKeysOnly(m) ==
  IF newly_discovered_overflowed
  THEN MarkObjects(m, {e.value : e \in {x \in m.next :
                                          x.key \in newly_discovered}})
  ELSE MarkObjects(m, {kv[2] : kv \in {p \in key_to_values :
                                         p[1] \in newly_discovered}})
LinearEphemeronStepOnOverflowOnly(m) ==
  IF newly_discovered_overflowed
  THEN MarkObjects(m, {e.value : e \in {x \in m.next : m.color[x.key] # White}})
  ELSE m
LinearEphemeronStepIgnoresOverflow(m) ==
  MarkObjects(m, {kv[2] : kv \in {p \in key_to_values :
                                    p[1] \in newly_discovered}})
\* The step of MarkTransitiveClosureLinear after the worklist and the
\* discovered ephemerons are drained: on overflow every ephemeron in
\* next_ephemerons with a marked key has its value marked, otherwise the
\* values key_to_values holds for the newly discovered objects are marked.
LinearEphemeronStep(m) ==
  IF newly_discovered_overflowed
  THEN MarkObjects(m, {e.value : e \in {x \in m.next : m.color[x.key] # White}})
  ELSE MarkObjects(m, {kv[2] : kv \in {p \in key_to_values :
                                         p[1] \in newly_discovered}})

MarkFail(function) ==
  /\ mark_failed' = function
  /\ mark_pc' = "crashed"

\* The state MarkLiveObjects starts in, on the heaps with these roots,
\* strong references and ephemerons.
InitMarkWith(root_choices, strong_candidates, ephemeron_candidates,
             parallel_choices) ==
  /\ roots \in root_choices
  /\ strong \in SUBSET strong_candidates
  /\ ephemerons \in {E \in SUBSET ephemeron_candidates : Cardinality(E) <= 2}
  /\ flag_parallel_marking \in parallel_choices
  /\ max_iterations \in {0, MaxIterations}
  /\ \E pre \in PreStates :
       /\ pre.kind = "filler" => Isolated(pre.object)
       /\ pre.kind = "table" =>
            /\ \A r \in strong : r[1] # pre.object
            /\ \E e \in ephemerons : e.table = pre.object
       /\ fillers = IF pre.kind = "filler" THEN {pre.object} ELSE {}
       /\ premarked = IF pre.kind = "clean" THEN {} ELSE {pre.object}
       /\ color = [o \in Objects |->
                     IF o = pre.object THEN pre.color ELSE White]
       /\ marking_worklist =
            IF pre.kind \in {"grey", "filler"} THEN {pre.object} ELSE {}
       /\ next_ephemerons =
            IF pre.kind = "table"
            THEN {e \in ephemerons : e.table = pre.object} ELSE {}
  /\ current_ephemerons = {}
  /\ discovered_ephemerons = {}
  /\ key_to_values = {}
  /\ newly_discovered = {}
  /\ newly_discovered_limit = 0
  /\ newly_discovered_overflowed = FALSE
  /\ iterations = 0
  /\ another_ephemeron_iteration_main_thread = FALSE
  /\ another_ephemeron_iteration = FALSE
  /\ objects_processed = FALSE
  /\ parallel_marking_ = FALSE
  /\ marking_job = FALSE
  /\ task_local = {}
  /\ mark_pc = "MarkRoots"
  /\ closures = 0
  /\ finished_by = "none"
  /\ mark_failed = "none"
  /\ PagesQuiescent
  /\ ClearQuiescent
  /\ EvacQuiescent
  /\ LaterQuiescent

InitMark ==
  InitMarkWith(RootChoices, StrongCandidates, EphemeronCandidates, BOOLEAN)

\* What no marking action touches.
outsideMark == << cycleVars, clearVars, objectVars, laterVars >>

\* MarkLiveObjects up to the first MarkTransitiveClosure: MarkRoots, and with
\* FLAG_parallel_marking the start of the marking job.
MarkRoots ==
  /\ mark_pc = "MarkRoots"
  /\ SetMarkState(MarkObjects(MarkState, roots))
  /\ parallel_marking_' = flag_parallel_marking
  /\ marking_job' = flag_parallel_marking
  /\ closures' = 1
  /\ mark_pc' = "fixpoint"
  /\ UNCHANGED << heapVars, current_ephemerons, linearVars, loopVars,
                  another_ephemeron_iteration, task_local, finished_by,
                  mark_failed, outsideMark >>

\* MarkTransitiveClosureUntilFixpoint, the head of the loop: give up after
\* max_iterations, else swap next_ephemerons into current_ephemerons.
FixpointIteration ==
  /\ mark_pc = "fixpoint"
  /\ IF iterations >= max_iterations
     THEN /\ mark_pc' = "linear"
          /\ UNCHANGED << current_ephemerons, next_ephemerons,
                          another_ephemeron_iteration,
                          another_ephemeron_iteration_main_thread,
                          objects_processed, mark_failed >>
     ELSE IF current_ephemerons # {}
          THEN /\ MarkFail("MarkTransitiveClosureUntilFixpoint")
               /\ UNCHANGED << current_ephemerons, next_ephemerons,
                               another_ephemeron_iteration,
                               another_ephemeron_iteration_main_thread,
                               objects_processed >>
          ELSE /\ current_ephemerons' = next_ephemerons
               /\ next_ephemerons' = {}
               /\ another_ephemeron_iteration' = FALSE
               /\ another_ephemeron_iteration_main_thread' = FALSE
               /\ objects_processed' = FALSE
               /\ mark_pc' = "current_ephemerons"
               /\ UNCHANGED mark_failed
  /\ UNCHANGED << heapVars, color, marking_worklist, discovered_ephemerons,
                  linearVars, iterations, jobVars, closures, finished_by,
                  outsideMark >>

\* ProcessEphemerons, first loop: one ephemeron popped from current_ephemerons.
ProcessCurrentEphemeron ==
  /\ mark_pc = "current_ephemerons"
  /\ \E e \in current_ephemerons :
       LET r == ProcessEphemeron(MarkState, e)
       IN /\ SetMarkState(r.m)
          /\ current_ephemerons' = current_ephemerons \ {e}
          /\ another_ephemeron_iteration_main_thread' =
               (another_ephemeron_iteration_main_thread \/ r.marked)
  /\ UNCHANGED << heapVars, linearVars, iterations, objects_processed,
                  another_ephemeron_iteration, jobVars, mark_pc, closures,
                  finished_by, mark_failed, outsideMark >>

CurrentEphemeronsDrained ==
  /\ mark_pc = "current_ephemerons"
  /\ current_ephemerons = {}
  /\ mark_pc' = "worklist"
  /\ UNCHANGED << heapVars, markStateVars, current_ephemerons, linearVars,
                  loopVars, another_ephemeron_iteration, jobVars, closures,
                  finished_by, mark_failed, outsideMark >>

\* ProcessMarkingWorklist, one object popped: a filler is ignored, any other
\* object is visited, and in the linear algorithm added to newly_discovered.
ProcessMarkingWorklist ==
  /\ mark_pc \in {"worklist", "linear_worklist"}
  /\ \E object \in marking_worklist :
       IF object \in fillers
       THEN /\ marking_worklist' = marking_worklist \ {object}
            /\ UNCHANGED << color, discovered_ephemerons, next_ephemerons,
                            newly_discovered, newly_discovered_overflowed,
                            objects_processed >>
       ELSE LET n == IF mark_pc = "linear_worklist"
                     THEN AddNewlyDiscovered(NewlyDiscovered, object)
                     ELSE NewlyDiscovered
            IN /\ SetMarkState(Visit(MarkState, object))
               /\ newly_discovered' = n.objects
               /\ newly_discovered_overflowed' = n.overflowed
               /\ objects_processed' = TRUE
  /\ UNCHANGED << heapVars, current_ephemerons, key_to_values,
                  newly_discovered_limit, iterations,
                  another_ephemeron_iteration_main_thread,
                  another_ephemeron_iteration, jobVars, mark_pc, closures,
                  finished_by, mark_failed, outsideMark >>

\* The worklist is empty: ProcessMarkingWorklist returns.
WorklistDrained ==
  /\ mark_pc \in {"worklist", "linear_worklist"}
  /\ marking_worklist = {}
  /\ another_ephemeron_iteration_main_thread' =
       (another_ephemeron_iteration_main_thread \/
          (mark_pc = "worklist" /\ objects_processed))
  /\ mark_pc' = IF mark_pc = "worklist"
                THEN "discovered_ephemerons" ELSE "linear_discovered"
  /\ UNCHANGED << heapVars, markStateVars, current_ephemerons, linearVars,
                  iterations, objects_processed, another_ephemeron_iteration,
                  jobVars, closures, finished_by, mark_failed, outsideMark >>

\* ProcessEphemerons, second loop: one discovered ephemeron.
ProcessDiscoveredEphemeron ==
  /\ mark_pc = "discovered_ephemerons"
  /\ \E e \in discovered_ephemerons :
       LET m == [MarkState EXCEPT !.discovered = discovered_ephemerons \ {e}]
           r == ProcessEphemeron(m, e)
       IN /\ SetMarkState(r.m)
          /\ another_ephemeron_iteration_main_thread' =
               (another_ephemeron_iteration_main_thread \/ r.marked)
  /\ UNCHANGED << heapVars, current_ephemerons, linearVars, iterations,
                  objects_processed, another_ephemeron_iteration, jobVars,
                  mark_pc, closures, finished_by, mark_failed, outsideMark >>

\* The foot of the loop of MarkTransitiveClosureUntilFixpoint.
FixpointIterationDone ==
  /\ mark_pc = "discovered_ephemerons"
  /\ discovered_ephemerons = {}
  /\ iterations' = iterations + 1
  /\ IF \/ another_ephemeron_iteration_main_thread
        \/ another_ephemeron_iteration
        \/ marking_worklist # {}
     THEN mark_pc' = "fixpoint" /\ UNCHANGED finished_by
     ELSE mark_pc' = "closure_returned" /\ finished_by' = "fixpoint"
  /\ UNCHANGED << heapVars, markStateVars, current_ephemerons, linearVars,
                  another_ephemeron_iteration_main_thread, objects_processed,
                  another_ephemeron_iteration, jobVars, closures, mark_failed,
                  outsideMark >>

\* ConcurrentMarking::IsStopped while the marking job runs: the collector
\* source does not tell, both answers are taken.
IsStoppedChoices == IF marking_job THEN BOOLEAN ELSE {TRUE}

\* MarkTransitiveClosureLinear up to its first loop.
LinearStart ==
  /\ mark_pc = "linear"
  /\ \E stopped \in IsStoppedChoices :
       IF ~stopped \/ current_ephemerons # {}
       THEN /\ MarkFail("MarkTransitiveClosureLinear")
            /\ UNCHANGED << current_ephemerons, next_ephemerons,
                            key_to_values >>
       ELSE /\ current_ephemerons' = next_ephemerons
            /\ next_ephemerons' = {}
            /\ key_to_values' = {}
            /\ mark_pc' = "linear_current"
            /\ UNCHANGED mark_failed
  /\ UNCHANGED << heapVars, color, marking_worklist, discovered_ephemerons,
                  newly_discovered, newly_discovered_limit,
                  newly_discovered_overflowed, loopVars,
                  another_ephemeron_iteration, jobVars, closures, finished_by,
                  outsideMark >>

\* One ephemeron of current_ephemerons or of discovered_ephemerons in
\* MarkTransitiveClosureLinear: ProcessEphemeron, then the insertion into
\* key_to_values.
LinearProcessEphemeron ==
  /\ \/ /\ mark_pc = "linear_current"
        /\ \E e \in current_ephemerons :
             LET r == ProcessEphemeron(MarkState, e)
             IN /\ SetMarkState(r.m)
                /\ key_to_values' = InsertKeyToValues(r.m, e)
                /\ current_ephemerons' = current_ephemerons \ {e}
     \/ /\ mark_pc = "linear_discovered"
        /\ \E e \in discovered_ephemerons :
             LET m == [MarkState EXCEPT
                         !.discovered = discovered_ephemerons \ {e}]
                 r == ProcessEphemeron(m, e)
             IN /\ SetMarkState(r.m)
                /\ key_to_values' = InsertKeyToValues(r.m, e)
                /\ UNCHANGED current_ephemerons
  /\ UNCHANGED << heapVars, newly_discovered, newly_discovered_limit,
                  newly_discovered_overflowed, loopVars,
                  another_ephemeron_iteration, jobVars, mark_pc, closures,
                  finished_by, mark_failed, outsideMark >>

\* The head of the loop of MarkTransitiveClosureLinear: ResetNewlyDiscovered
\* and the new limit.
LinearIteration ==
  /\ \/ mark_pc = "linear_current" /\ current_ephemerons = {}
     \/ mark_pc = "linear_top"
  /\ newly_discovered' = {}
  /\ newly_discovered_overflowed' = FALSE
  /\ newly_discovered_limit' = Cardinality(key_to_values)
  /\ mark_pc' = "linear_worklist"
  /\ UNCHANGED << heapVars, markStateVars, current_ephemerons, key_to_values,
                  loopVars, another_ephemeron_iteration, jobVars, closures,
                  finished_by, mark_failed, outsideMark >>

\* The foot of the loop of MarkTransitiveClosureLinear, and its return.
LinearIterationDone ==
  /\ mark_pc = "linear_discovered"
  /\ discovered_ephemerons = {}
  /\ LET m == LinearEphemeronStep(MarkState)
     IN /\ SetMarkState(m)
        /\ IF m.worklist # {}
           THEN /\ mark_pc' = "linear_top"
                /\ UNCHANGED << newly_discovered, newly_discovered_overflowed,
                                finished_by, mark_failed >>
           ELSE IF current_ephemerons # {}
                THEN /\ MarkFail("MarkTransitiveClosureLinear")
                     /\ UNCHANGED << newly_discovered,
                                     newly_discovered_overflowed,
                                     finished_by >>
                ELSE /\ newly_discovered' = {}
                     /\ newly_discovered_overflowed' = FALSE
                     /\ finished_by' = "linear"
                     /\ mark_pc' = "closure_returned"
                     /\ UNCHANGED mark_failed
  /\ UNCHANGED << heapVars, current_ephemerons, key_to_values,
                  newly_discovered_limit, loopVars,
                  another_ephemeron_iteration, jobVars, closures,
                  outsideMark >>

\* MarkLiveObjects after a MarkTransitiveClosure: the parallel closure is
\* followed by FinishConcurrentMarking, the final one by the CHECKs.
ClosureReturned ==
  /\ mark_pc = "closure_returned"
  /\ mark_pc' = IF parallel_marking_
                THEN "FinishConcurrentMarking" ELSE "VerifyEphemeronMarking"
  /\ UNCHANGED << heapVars, markStateVars, current_ephemerons, linearVars,
                  loopVars, another_ephemeron_iteration, jobVars, closures,
                  finished_by, mark_failed, outsideMark >>

JoinMarkingJobLeavesTasks ==
  /\ mark_pc = "FinishConcurrentMarking"
  /\ iterations' = 0
  /\ closures' = closures + 1
  /\ finished_by' = "none"
  /\ mark_pc' = "fixpoint"
  /\ parallel_marking_' = FALSE
  /\ UNCHANGED << heapVars, markStateVars, current_ephemerons, linearVars,
                  another_ephemeron_iteration_main_thread, objects_processed,
                  another_ephemeron_iteration, task_local, marking_job,
                  mark_failed, outsideMark >>

\* FinishConcurrentMarking joins the marking job, which ends when its tasks
\* find no more work; the final MarkTransitiveClosure begins.
JoinMarkingJob ==
  /\ mark_pc = "FinishConcurrentMarking"
  /\ marking_worklist = {}
  /\ task_local = {}
  /\ discovered_ephemerons = {}
  /\ marking_job' = FALSE
  /\ parallel_marking_' = FALSE
  /\ iterations' = 0
  /\ closures' = closures + 1
  /\ finished_by' = "none"
  /\ mark_pc' = "fixpoint"
  /\ UNCHANGED << heapVars, markStateVars, current_ephemerons, linearVars,
                  another_ephemeron_iteration_main_thread, objects_processed,
                  another_ephemeron_iteration, task_local, mark_failed,
                  outsideMark >>

\* The CHECKs at the end of MarkLiveObjects and VerifyEphemeronMarking, which
\* runs ProcessEphemeron over next_ephemerons and fails if one marks.
MarkLiveObjectsEnd ==
  /\ mark_pc = "VerifyEphemeronMarking"
  /\ IF \/ marking_worklist # {}
        \/ current_ephemerons # {}
        \/ discovered_ephemerons # {}
     THEN MarkFail("MarkLiveObjects") /\ UNCHANGED next_ephemerons
     ELSE IF \E e \in next_ephemerons : ProcessEphemeron(MarkState, e).marked
          THEN MarkFail("VerifyEphemeronMarking") /\ UNCHANGED next_ephemerons
          ELSE /\ next_ephemerons' =
                    {e \in next_ephemerons :
                       color[e.key] = White /\ color[e.value] = White}
               /\ mark_pc' = "done"
               /\ UNCHANGED mark_failed
  /\ UNCHANGED << heapVars, color, marking_worklist, discovered_ephemerons,
                  current_ephemerons, linearVars, loopVars,
                  another_ephemeron_iteration, jobVars, closures, finished_by,
                  outsideMark >>

\* A task of the marking job takes an object from the shared worklist.
MarkingTaskPop ==
  /\ marking_job
  /\ Cardinality(task_local) < NumWorkers
  /\ \E object \in marking_worklist :
       /\ marking_worklist' = marking_worklist \ {object}
       /\ task_local' = task_local \cup {object}
  /\ UNCHANGED << heapVars, color, discovered_ephemerons, next_ephemerons,
                  current_ephemerons, linearVars, loopVars,
                  another_ephemeron_iteration, parallel_marking_, marking_job,
                  mark_pc, closures, finished_by, mark_failed, outsideMark >>

\* A task visits an object it holds; fillers are skipped.
MarkingTaskVisit ==
  /\ \E object \in task_local :
       /\ task_local' = task_local \ {object}
       /\ IF object \in fillers
          THEN UNCHANGED markStateVars
          ELSE SetMarkState(Visit(MarkState, object))
  /\ UNCHANGED << heapVars, current_ephemerons, linearVars, loopVars,
                  another_ephemeron_iteration, parallel_marking_, marking_job,
                  mark_pc, closures, finished_by, mark_failed, outsideMark >>

\* A task processes a discovered ephemeron; marking a value asks for another
\* ephemeron iteration.
MarkingTaskEphemeron ==
  /\ marking_job
  /\ \E e \in discovered_ephemerons :
       LET m == [MarkState EXCEPT !.discovered = discovered_ephemerons \ {e}]
           r == ProcessEphemeron(m, e)
       IN /\ SetMarkState(r.m)
          /\ another_ephemeron_iteration' =
               (another_ephemeron_iteration \/ r.marked)
  /\ UNCHANGED << heapVars, current_ephemerons, linearVars, loopVars,
                  jobVars, mark_pc, closures, finished_by, mark_failed,
                  outsideMark >>

NextMark ==
  \/ MarkRoots
  \/ FixpointIteration
  \/ ProcessCurrentEphemeron
  \/ CurrentEphemeronsDrained
  \/ ProcessMarkingWorklist
  \/ WorklistDrained
  \/ ProcessDiscoveredEphemeron
  \/ FixpointIterationDone
  \/ LinearStart
  \/ LinearProcessEphemeron
  \/ LinearIteration
  \/ LinearIterationDone
  \/ ClosureReturned
  \/ JoinMarkingJob
  \/ MarkLiveObjectsEnd
  \/ MarkingTaskPop
  \/ MarkingTaskVisit
  \/ MarkingTaskEphemeron

SpecMark == InitMark /\ [][NextMark]_vars

\* Marking with the main thread and the tasks of the marking job never
\* stopping while a step is open to one of them.
SpecMarkFair == SpecMark /\ WF_vars(NextMark)

\* Marking without FLAG_parallel_marking: the main thread alone, one
\* MarkTransitiveClosure.  The heaps are those above and the ones where the
\* last object is the root and refers to the second, and the first table
\* holds an ephemeron from the third object back to the second, so that a
\* key turns up on the worklist after its ephemeron entered key_to_values.
InitMarkSerial ==
  InitMarkWith(RootChoices \cup {{NumObjects}},
               StrongCandidates \cup {<< NumObjects, 2 >>},
               EphemeronCandidates \cup {[table |-> 1, key |-> 3, value |-> 2]},
               {FALSE})

NextMarkSerial ==
  \/ MarkRoots
  \/ FixpointIteration
  \/ ProcessCurrentEphemeron
  \/ CurrentEphemeronsDrained
  \/ ProcessMarkingWorklist
  \/ WorklistDrained
  \/ ProcessDiscoveredEphemeron
  \/ FixpointIterationDone
  \/ LinearStart
  \/ LinearProcessEphemeron
  \/ LinearIteration
  \/ LinearIterationDone
  \/ ClosureReturned
  \/ MarkLiveObjectsEnd

SpecMarkSerial == InitMarkSerial /\ [][NextMarkSerial]_vars

(***************************************************************************)
(* Weak-reference clearing: ClearWeakReferences.                           *)
(***************************************************************************)
\* Where the objects and the slots lie: slot s is a field of object HostOf(s).
PageOf(o) == ((o - 1) % NumPages) + 1
HostOf(s) == ((s - 1) % NumObjects) + 1

\* Maps among the objects (value.IsMap()).
IsMap(o) == o >= 3

\* What the recorded slots may hold when clearing begins: the weak reference
\* that was recorded, or what overwrote it since.
SlotChoices == {Weak(2), Weak(3), Strong(2), Smi}

\* The colours marking left: the hosts and the targets of strong references
\* are marked.
ColorChoices ==
  {c \in [Objects -> {White, Black}] :
     \A o \in Objects : o \notin {2, 3} => c[o] = Black}

\* The evacuation candidates when clearing begins.
CandidateChoices == {{}, {PageOf(2)}, {PageOf(1), PageOf(2)}}

\* Page::ShouldSkipEvacuationSlotRecording.
ShouldSkipEvacuationSlotRecording(p) ==
  /\ EVACUATION_CANDIDATE \in page_flags[p]
  /\ COMPACTION_WAS_ABORTED \notin page_flags[p]

\* MarkCompactCollector::RecordSlot: the OLD_TO_OLD slots after recording a
\* slot of the host that refers to the target.
RecordSlot(recorded, s, target) ==
  IF /\ EVACUATION_CANDIDATE \in page_flags[PageOf(target)]
     /\ ~ShouldSkipEvacuationSlotRecording(PageOf(HostOf(s)))
  THEN recorded \cup {s}
  ELSE recorded

ClearWeakReferenceKeepsDead(value) ==
  value
\* What ClearWeakReferences stores in a popped slot: the cleared value when
\* the slot holds a weak reference to an unmarked object, else what it holds.
ClearWeakReference(value) ==
  IF value.kind = "weak" /\ color[value.target] = White
  THEN ClearedValue
  ELSE value

\* The state ClearWeakReferences starts in.
InitClear ==
  /\ \E candidates \in CandidateChoices :
       PagesAtRest(MARK_LIVE_OBJECTS, candidates)
  /\ \E colors \in ColorChoices :
       /\ MarkAtRest(colors)
       /\ slot_value \in
            {v \in [Slots -> SlotChoices] :
               \A s \in Slots :
                 v[s].kind = "strong" => colors[v[s].target] = Black}
  /\ slot_before = slot_value
  /\ weak_references \in {Slots, Slots \ {1}}
  /\ weak_references_before = weak_references
  /\ old_to_old_slots = {}
  /\ dead_transitions = {}
  /\ clear_pc = "ClearWeakReferences"
  /\ EvacQuiescent
  /\ LaterQuiescent

\* ClearWeakReferences, one slot popped from weak_references.
ClearWeakReferencesStep ==
  /\ clear_pc = "ClearWeakReferences"
  /\ \E s \in weak_references :
       LET value == slot_value[s]
       IN /\ weak_references' = weak_references \ {s}
          /\ slot_value' = [slot_value EXCEPT ![s] = ClearWeakReference(value)]
          /\ old_to_old_slots' =
               IF value.kind = "weak" /\ color[value.target] # White
               THEN RecordSlot(old_to_old_slots, s, value.target)
               ELSE old_to_old_slots
          /\ dead_transitions' =
               IF /\ value.kind = "weak"
                  /\ color[value.target] = White
                  /\ IsMap(value.target)
               THEN dead_transitions \cup {value.target}
               ELSE dead_transitions
  /\ UNCHANGED << slot_before, weak_references_before, clear_pc, cycleVars,
                  markVars, objectVars, laterVars >>

\* The worklist is empty: ClearWeakReferences returns.
ClearWeakReferencesDone ==
  /\ clear_pc = "ClearWeakReferences"
  /\ weak_references = {}
  /\ clear_pc' = "done"
  /\ UNCHANGED << slot_value, slot_before, weak_references,
                  weak_references_before, old_to_old_slots, dead_transitions,
                  cycleVars, markVars, objectVars, laterVars >>

NextClear ==
  \/ ClearWeakReferencesStep
  \/ ClearWeakReferencesDone

SpecClear == InitClear /\ [][NextClear]_vars

(***************************************************************************)
(* The evacuation machine: EvacuatePagesInParallel and                     *)
(* UpdatePointersAfterEvacuation over the objects, their forwarding        *)
(* addresses and the recorded slots.                                       *)
(***************************************************************************)
\* The variables of the other machines that evacuation leaves alone.
cycleRest ==
  << state_, compacting_, evacuation_candidates_,
     old_space_evacuation_pages_, allocated_bytes, live_bytes, old_to_old,
     sweeper_pages, released_pages, is_marking, gc_without_stack, heap_mode,
     lab_owner, flags, pc, caller, state_history, phase_log, rejected,
     invoked, calls_left >>
markRest ==
  << heapVars, marking_worklist, discovered_ephemerons, next_ephemerons,
     current_ephemerons, linearVars, loopVars, another_ephemeron_iteration,
     jobVars, mark_pc, closures, finished_by, mark_failed >>
outsideEvac == << cycleRest, markRest, clearVars, laterVars >>

\* The objects lie on the first pages, two to a page, in address order.
ObjectPage(o) == ((o - 1) \div 2) + 1
Copy(o) == o + NumObjects
IsCopy(a) == a > NumObjects

\* Page::FromHeapObject, given the pages the copies were allocated on.
FromHeapObject(pages, a) ==
  IF IsCopy(a) THEN pages[a - NumObjects] ELSE ObjectPage(a)

\* The size of an object, in bytes.
ObjectSize(o) == 8 * (((o - 1) % 2) + 1)

RECURSIVE SizeOf(_)
SizeOf(objects) ==
  IF objects = {} THEN 0
  ELSE LET o == CHOOSE x \in objects : TRUE
       IN ObjectSize(o) + SizeOf(objects \ {o})

\* The objects whose mark bits are set on a page, which the
\* LiveObjectVisitor visits in address order.
BlackObjectsOn(p) == {o \in Objects : ObjectPage(o) = p /\ color[o] = Black}

\* MaybeObject::IsStrongOrWeak
IsStrongOrWeak(value) == value.kind \in {"strong", "weak"}

\* The field of a code object is an embedded pointer, recorded as a typed
\* slot; the field of any other object is recorded as an untyped slot.
IsCode(pages, a) == PageOwner(FromHeapObject(pages, a)) = "CODE_SPACE"

\* Page::ShouldSkipEvacuationSlotRecording, on given page flags.
SkipsEvacuationSlotRecording(pf, p) ==
  /\ EVACUATION_CANDIDATE \in pf[p]
  /\ COMPACTION_WAS_ABORTED \notin pf[p]

\* MarkCompactCollector::RecordSlot: the slot recorded by marking is inserted
\* into the OLD_TO_OLD slot set of the chunk of the host.
RecordSlotInserts(pf, host, value) ==
  /\ IsStrongOrWeak(value)
  /\ ~IsCode(copy_page, host)
  /\ EVACUATION_CANDIDATE \in pf[ObjectPage(value.target)]
  /\ ~SkipsEvacuationSlotRecording(pf, ObjectPage(host))

\* MarkCompactCollector::ShouldRecordRelocSlot
ShouldRecordRelocSlot(pf, pages, host, target) ==
  /\ EVACUATION_CANDIDATE \in pf[FromHeapObject(pages, target)]
  /\ ~SkipsEvacuationSlotRecording(pf, FromHeapObject(pages, host))

\* MarkCompactCollector::RecordRelocSlot: the embedded pointer of a code
\* object is inserted into the OLD_TO_OLD typed slot set.
RecordRelocSlot(pf, pages, host, value) ==
  /\ IsStrongOrWeak(value)
  /\ IsCode(pages, host)
  /\ ShouldRecordRelocSlot(pf, pages, host, value.target)

\* RecordMigratedSlotVisitor::RecordMigratedSlot: the slot of a migrated or
\* re-recorded host is inserted into the OLD_TO_OLD slot set.
RecordMigratedSlot(pf, pages, host, value) ==
  /\ IsStrongOrWeak(value)
  /\ ~IsCode(pages, host)
  /\ EVACUATION_CANDIDATE \in pf[FromHeapObject(pages, value.target)]

set_map_word_dropped(word, dst) ==
  word
\* The last statement of RawMigrateObject:
\* src.set_map_word(MapWord::FromForwardingAddress(dst)).
set_map_word(word, dst) ==
  dst

UpdateSlotKeepsAddress(value) ==
  value
\* UpdateSlot: a reference to an object whose map word is a forwarding
\* address is replaced by a reference of the same kind to that address.
UpdateSlot(value) ==
  IF IsStrongOrWeak(value) /\ map_word[value.target] # 0
  THEN [value EXCEPT !.target = map_word[value.target]]
  ELSE value

\* The pages chosen as evacuation candidates among those holding objects.
EvacuationCandidateChoices == {{1}, {2}, {1, 2}}

\* Marking left every object Black or White; the root's referent is Black.
LiveChoices ==
  {c \in [Objects -> {White, Black}] :
     \A o \in Objects : c[o] = White => o \in {2, NumObjects}}

\* What the field of a live object may hold: no reference, a strong
\* reference to its successor, or a weak reference to the object after that;
\* a code object has no weak reference (there are no weak typed slots) and
\* may refer to its predecessor instead.
FieldChoice(o, choice) ==
  IF choice = 0 THEN Smi
  ELSE IF choice = 1 THEN Strong((o % NumObjects) + 1)
  ELSE IF PageOwner(ObjectPage(o)) = "CODE_SPACE"
  THEN Strong(((o + NumObjects - 2) % NumObjects) + 1)
  ELSE Weak(((o + 1) % NumObjects) + 1)

\* The state EvacuatePagesInParallel starts in: marking and clearing left
\* live objects referring to live objects only, and every slot of a host
\* outside the candidates that refers into a candidate recorded.  A recorded
\* slot may have been overwritten since.  Every slot that holds a young
\* object is in an OLD_TO_NEW set and every slot into the shared heap in an
\* OLD_TO_SHARED set, and marking counted the bytes of the Black objects.
InitEvacWith(candidate_choices, configuration_choices, outward_hosts) ==
  /\ \E candidates \in candidate_choices, cf \in configuration_choices :
       PagesBetweenPhases(SWEEP_SPACES, candidates, TRUE, cf)
  /\ \E colors \in LiveChoices : MarkAtRest(colors)
  /\ ClearQuiescent
  /\ map_word = [a \in Addresses |-> 0]
  /\ copy_page = [o \in Objects |-> 0]
  /\ \E choice \in [Objects -> 0..2] :
       /\ \A o \in Objects :
            /\ color[o] = White => choice[o] = 0
            /\ IsStrongOrWeak(FieldChoice(o, choice[o]))
                 => color[FieldChoice(o, choice[o]).target] = Black
       /\ field = [a \in Addresses |->
                     IF IsCopy(a) THEN Smi ELSE FieldChoice(a, choice[a])]
  /\ root_slot = Strong(1)
  /\ LET hosts == {o \in Objects : color[o] = Black}
         overwritten ==
           {o \in hosts : /\ field[o] = Smi
                          /\ ~SkipsEvacuationSlotRecording(page_flags,
                                                           ObjectPage(o))}
     IN \E stale \in {{}, overwritten} :
          /\ slot_set =
               {o \in hosts : RecordSlotInserts(page_flags, o, field[o])}
                 \cup {o \in stale : ~IsCode(copy_page, o)}
          /\ typed_slot_set =
               {o \in hosts :
                  RecordRelocSlot(page_flags, copy_page, o, field[o])}
                 \cup {o \in stale : IsCode(copy_page, o)}
  /\ failed_object = [p \in Pages |-> 0]
  /\ live_before = {o \in Objects : color[o] = Black}
  /\ young_field \in SUBSET outward_hosts
  /\ shared_field \in SUBSET outward_hosts
  /\ old_to_new_slots = young_field
  /\ old_to_shared_slots = shared_field
  /\ chunk_live_bytes = [p \in Pages |-> SizeOf(BlackObjectsOn(p))]
  /\ evac_pc = "EvacuatePagesInParallel"
  /\ LaterQuiescent

\* Evacuation of an old generation without references to the nursery or to
\* the shared heap.
InitEvac == InitEvacWith(EvacuationCandidateChoices, Configurations, {})

\* MarkCompactCollector::EvacuatePagesInParallel, up to the posting of the
\* page evacuation job: the candidates the stack flags rule out are reported
\* as aborted and flagged, the others become the items of the job.
CollectEvacuationItems ==
  /\ evac_pc = "EvacuatePagesInParallel"
  /\ aborted_flags' = aborted_flags \cup AbortedDueToFlags
  /\ page_flags' =
       [p \in Pages |->
          IF p \in AbortedDueToFlags
          THEN page_flags[p] \cup {COMPACTION_WAS_ABORTED}
          ELSE page_flags[p]]
  /\ job' = PostJob("evacuation",
                    Range(old_space_evacuation_pages_) \ AbortedDueToFlags)
  /\ evac_pc' = "PageEvacuationJob"
  /\ UNCHANGED << aborted_oom, chunk_list, color, map_word, field, root_slot,
                  copy_page, slot_set, typed_slot_set, failed_object,
                  live_before, evacHeap, evacRecorded, outsideEvac >>

\* FullEvacuator::RawEvacuatePage on an old-space candidate (kObjectsOldToOld):
\* the Black objects are migrated in address order until an allocation
\* fails; the mark bits of the migrated objects are cleared.
RawEvacuatePage ==
  /\ evac_pc = "PageEvacuationJob"
  /\ job.kind = "evacuation"
  /\ \E p \in job.pending :
       \E failed \in BlackObjectsOn(p) \cup {0} :
         LET migrated ==
               {o \in BlackObjectsOn(p) : failed = 0 \/ o < failed}
         IN \E dst \in IF migrated = {} THEN {0} ELSE Destinations(p) :
              LET pages == [o \in Objects |->
                              IF o \in migrated THEN dst ELSE copy_page[o]]
              IN /\ copy_page' = pages
                 /\ field' =
                      [a \in Addresses |->
                         IF IsCopy(a) /\ (a - NumObjects) \in migrated
                         THEN field[a - NumObjects]
                         ELSE field[a]]
                 /\ slot_set' =
                      slot_set \cup
                        {Copy(o) : o \in
                           {m \in migrated :
                              RecordMigratedSlot(page_flags, pages, Copy(m),
                                                 field[m])}}
                 /\ typed_slot_set' =
                      typed_slot_set \cup
                        {Copy(o) : o \in
                           {m \in migrated :
                              RecordRelocSlot(page_flags, pages, Copy(m),
                                              field[m])}}
                 /\ map_word' =
                      [a \in Addresses |->
                         IF a \in migrated
                         THEN set_map_word(map_word[a], Copy(a))
                         ELSE map_word[a]]
                 /\ color' = [o \in Objects |->
                                IF o \in migrated THEN White ELSE color[o]]
                 /\ old_to_new_slots' =
                      old_to_new_slots \cup
                        {Copy(m) : m \in migrated \cap young_field}
                 /\ chunk_live_bytes' =
                      IF failed = 0
                      THEN [chunk_live_bytes EXCEPT ![p] = 0]
                      ELSE chunk_live_bytes
                 /\ failed_object' = [failed_object EXCEPT ![p] = failed]
                 /\ aborted_oom' =
                      IF failed = 0 THEN aborted_oom
                      ELSE aborted_oom \cup {p}
                 /\ evac_pc' =
                      IF failed # 0 /\ flags.crash_on_aborted_evacuation
                      THEN "crashed"
                      ELSE evac_pc
                 /\ job' = ItemDone(p)
  /\ UNCHANGED << aborted_flags, page_flags, chunk_list, root_slot,
                  live_before, evacHeap, old_to_shared_slots, outsideEvac >>

\* The addresses of a page below the object whose allocation failed; none
\* when the page was aborted because of the stack flags, where the range
\* given to ReRecordPage begins at the start of the area.
BelowFailedStart(p) ==
  {o \in Objects : ObjectPage(o) = p /\ o < failed_object[p]}

\* LiveObjectVisitor::RecomputeLiveBytes: the bytes of the objects whose
\* mark bits are set.
RecomputeLiveBytes(p) ==
  SizeOf({o \in Objects : ObjectPage(o) = p /\ color[o] # White})

ReRecordPageRecordsNothing(pf, p) ==
  [untyped |-> {}, typed |-> {}, outdated |-> BelowFailedStart(p),
   old_to_new |-> {}, live_bytes |-> RecomputeLiveBytes(p)]
ReRecordPageKeepsOutdatedSlots(pf, p) ==
  LET flagged == [pf EXCEPT ![p] = @ \cup {COMPACTION_WAS_ABORTED}]
  IN [untyped |->
        {o \in BlackObjectsOn(p) :
           RecordMigratedSlot(flagged, copy_page, o, field[o])},
      typed |->
        {o \in BlackObjectsOn(p) :
           RecordRelocSlot(flagged, copy_page, o, field[o])},
      outdated |-> {},
      old_to_new |-> BlackObjectsOn(p) \cap young_field,
      live_bytes |-> RecomputeLiveBytes(p)]
\* ReRecordPage: the page is flagged as aborted, the OLD_TO_NEW and
\* OLD_TO_SHARED slots below the failed object are removed, the live bytes
\* are recomputed and the slots of the Black objects are recorded by the
\* EvacuateRecordOnlyVisitor.
ReRecordPage(pf, p) ==
  LET flagged == [pf EXCEPT ![p] = @ \cup {COMPACTION_WAS_ABORTED}]
  IN [untyped |->
        {o \in BlackObjectsOn(p) :
           RecordMigratedSlot(flagged, copy_page, o, field[o])},
      typed |->
        {o \in BlackObjectsOn(p) :
           RecordRelocSlot(flagged, copy_page, o, field[o])},
      outdated |-> BelowFailedStart(p),
      old_to_new |-> BlackObjectsOn(p) \cap young_field,
      live_bytes |-> RecomputeLiveBytes(p)]

\* MarkCompactCollector::PostProcessEvacuationCandidates once the job is
\* joined: every aborted page is re-recorded, and only then the aborted
\* candidates lose their candidate flag and the others leave the chunk list.
PostProcessAbortedCandidates ==
  /\ evac_pc = "PageEvacuationJob"
  /\ Joined
  /\ job' = JoinedJob
  /\ LET aborted == aborted_oom \cup aborted_flags
     IN /\ slot_set' =
             slot_set \cup
               UNION {ReRecordPage(page_flags, p).untyped : p \in aborted}
        /\ typed_slot_set' =
             typed_slot_set \cup
               UNION {ReRecordPage(page_flags, p).typed : p \in aborted}
        /\ old_to_new_slots' =
             (old_to_new_slots
                \ UNION {ReRecordPage(page_flags, p).outdated : p \in aborted})
               \cup
                 UNION {ReRecordPage(page_flags, p).old_to_new : p \in aborted}
        /\ old_to_shared_slots' =
             old_to_shared_slots
               \ UNION {ReRecordPage(page_flags, p).outdated : p \in aborted}
        /\ chunk_live_bytes' =
             [p \in Pages |->
                IF p \in aborted
                THEN ReRecordPage(page_flags, p).live_bytes
                ELSE chunk_live_bytes[p]]
        /\ page_flags' =
             [p \in Pages |->
                IF p \in aborted
                THEN (page_flags[p] \cup {COMPACTION_WAS_ABORTED})
                       \ {EVACUATION_CANDIDATE}
                ELSE page_flags[p]]
        /\ chunk_list' =
             chunk_list \ (Range(old_space_evacuation_pages_) \ aborted)
  /\ evac_pc' = "UpdatePointersAfterEvacuation"
  /\ UNCHANGED << aborted_oom, aborted_flags, color, map_word, field,
                  root_slot, copy_page, failed_object, live_before, evacHeap,
                  outsideEvac >>

\* CollectRememberedSetUpdatingItems: the chunks of the spaces that have an
\* OLD_TO_OLD slot set or typed slot set.
ChunksWithSlots ==
  {p \in chunk_list :
     \E a \in slot_set \cup typed_slot_set :
       FromHeapObject(copy_page, a) = p}

\* MarkCompactCollector::UpdatePointersAfterEvacuation, up to the posting of
\* the pointer updating job: the roots are updated and the items collected.
UpdateRootsAndCollectItems ==
  /\ evac_pc = "UpdatePointersAfterEvacuation"
  /\ root_slot' = UpdateSlot(root_slot)
  /\ job' = PostJob("updating", ChunksWithSlots)
  /\ evac_pc' = "UpdatePointersJoin"
  /\ UNCHANGED << aborted_oom, aborted_flags, page_flags, chunk_list, color,
                  map_word, field, copy_page, slot_set, typed_slot_set,
                  failed_object, live_before, evacHeap, evacRecorded,
                  outsideEvac >>

\* RememberedSetUpdatingItem::Process on one chunk: UpdateUntypedPointers
\* and UpdateTypedPointers update every recorded slot and release the sets.
UpdatingItemProcess ==
  /\ evac_pc = "UpdatePointersJoin"
  /\ job.kind = "updating"
  /\ \E p \in job.pending :
       LET recorded ==
             {a \in slot_set \cup typed_slot_set :
                FromHeapObject(copy_page, a) = p}
       IN /\ field' = [a \in Addresses |->
                         IF a \in recorded THEN UpdateSlot(field[a])
                         ELSE field[a]]
          /\ slot_set' = slot_set \ recorded
          /\ typed_slot_set' = typed_slot_set \ recorded
          /\ job' = ItemDone(p)
  /\ UNCHANGED << aborted_oom, aborted_flags, page_flags, chunk_list, color,
                  map_word, root_slot, copy_page, failed_object, live_before,
                  evacHeap, evacRecorded, evac_pc, outsideEvac >>

\* The end of UpdatePointersAfterEvacuation: the updating job is joined.
UpdatePointersDone ==
  /\ evac_pc = "UpdatePointersJoin"
  /\ Joined
  /\ job' = JoinedJob
  /\ evac_pc' = "done"
  /\ UNCHANGED << aborted_oom, aborted_flags, page_flags, chunk_list, color,
                  map_word, field, root_slot, copy_page, slot_set,
                  typed_slot_set, failed_object, live_before, evacHeap,
                  evacRecorded, outsideEvac >>

NextEvac ==
  \/ CollectEvacuationItems
  \/ RawEvacuatePage
  \/ PostProcessAbortedCandidates
  \/ UpdateRootsAndCollectItems
  \/ UpdatingItemProcess
  \/ UpdatePointersDone

SpecEvac == InitEvac /\ [][NextEvac]_vars

\* Evacuation of the first page of the old space, whose objects may hold
\* references to the nursery and to the shared heap.
InitEvacOutward == InitEvacWith({{1}}, Configurations, {1, 2})

SpecEvacOutward == InitEvacOutward /\ [][NextEvac]_vars

(***************************************************************************)
(* The nursery machine: EvacuatePagesInParallel of either collector over   *)
(* the new-space pages, with EvacuateNewSpaceVisitor::Visit on each marked *)
(* object of a page that is not promoted as a whole.                       *)
(***************************************************************************)
\* The variables of the machines defined before this one.
olderVars == << cycleVars, markVars, clearVars, objectVars >>

\* These machines at rest.
OlderQuiescent ==
  /\ PagesAtRest(IDLE, {})
  /\ MarkQuiescent
  /\ ClearQuiescent
  /\ EvacQuiescent

\* Evacuator::NewSpacePageEvacuationThreshold, in bytes.
NewSpacePageEvacuationThreshold == 16

\* The colour of a marked object: the full collector leaves it Black, the
\* young-generation collector Grey.
MarkedColor(collector) == IF collector = "full" THEN Black ELSE Grey

\* The marked objects of a page, which VisitBlackObjectsNoFail and
\* VisitGreyObjectsNoFail visit in address order.
MarkedObjectsOn(colors, collector, p) ==
  {o \in Objects : ObjectPage(o) = p /\ colors[o] = MarkedColor(collector)}

\* The address a ThinString forwards to: its actual string.
ThinStringActual(o) == o + 2 * NumObjects

\* What the allocator and the heap answer while one object is visited.
AllVisitInputs ==
  [without_copy : BOOLEAN, should_be_promoted : BOOLEAN, old_ok : BOOLEAN,
   new_ok : BOOLEAN, fallback_ok : BOOLEAN]

\* The answers a visit of the full collector asks for: the others are FALSE.
FullVisitInputs ==
  {input \in AllVisitInputs :
     /\ ~input.should_be_promoted
     /\ input.old_ok => ~input.without_copy
     /\ ~input.new_ok
     /\ ~input.fallback_ok}

\* The answers a visit of the young-generation collector asks for.
MinorVisitInputs ==
  {input \in AllVisitInputs :
     /\ input.should_be_promoted => ~input.without_copy
     /\ input.old_ok => input.should_be_promoted
     /\ input.new_ok => ~input.without_copy /\ ~input.old_ok
     /\ input.fallback_ok
          => ~input.without_copy /\ ~input.old_ok /\ ~input.new_ok}

VisitInputs(always_promote_young) ==
  IF always_promote_young THEN FullVisitInputs ELSE MinorVisitInputs

EvacuateNewSpaceVisitReturns(always_promote_young, input) ==
  IF input.without_copy THEN "forwarded"
  ELSE IF always_promote_young
  THEN IF input.old_ok THEN "OLD_SPACE" ELSE "none"
  ELSE IF input.should_be_promoted /\ input.old_ok THEN "OLD_SPACE"
  ELSE IF input.new_ok THEN "NEW_SPACE"
  ELSE IF input.fallback_ok THEN "OLD_SPACE"
  ELSE "none"
\* EvacuateNewSpaceVisitor::Visit: the space the object was copied to,
\* "forwarded" when TryEvacuateWithoutCopy installed a forwarding address, or
\* "fatal" when the visit ended in FatalProcessOutOfMemory.
EvacuateNewSpaceVisit(always_promote_young, input) ==
  IF input.without_copy THEN "forwarded"
  ELSE IF always_promote_young
  THEN IF input.old_ok THEN "OLD_SPACE" ELSE "fatal"
  ELSE IF input.should_be_promoted /\ input.old_ok THEN "OLD_SPACE"
  ELSE IF input.new_ok THEN "NEW_SPACE"
  ELSE IF input.fallback_ok THEN "OLD_SPACE"
  ELSE "fatal"

\* Every allocation the visit of an object could try has failed.
AllocationsFailed(always_promote_young, input) ==
  /\ ~input.without_copy
  /\ IF always_promote_young THEN ~input.old_ok
     ELSE /\ ~input.new_ok
          /\ ~input.fallback_ok
          /\ ~(input.should_be_promoted /\ input.old_ok)

\* The state EvacuatePagesInParallel of either collector starts in.  The
\* full collector counted the live bytes of every marked object; in the
\* young-generation collector the marking tasks counted the objects they
\* visited, while the objects the main thread visited in DrainMarkingWorklist
\* were not counted.
InitNursery ==
  /\ OlderQuiescent
  /\ TasksQuiescent
  /\ YoungMarkQuiescent
  /\ SelectQuiescent
  /\ OrderQuiescent
  /\ WeakQuiescent
  /\ \E collector \in {"full", "minor"} :
       /\ nursery_collector = collector
       /\ young_color \in [Objects -> {White, MarkedColor(collector)}]
       /\ young_marked = {o \in Objects : young_color[o] # White}
       /\ \E counted \in SUBSET young_marked :
            /\ collector = "full" => counted = young_marked
            /\ young_live_bytes =
                 [p \in Pages |->
                    SizeOf({o \in counted : ObjectPage(o) = p})]
  /\ young_map_word = [o \in Objects |-> 0]
  /\ copy_space = [o \in Objects |-> "none"]
  /\ promotion = [p \in Pages |-> "none"]
  /\ nursery_items = {}
  /\ failed_allocation = {}
  /\ nursery_pc = "EvacuatePagesInParallel"

\* ShouldMovePage: can_move stands for the conditions on the heap (memory
\* reducing, the age mark, room to expand the old generation).
ShouldMovePage(bytes, never_evacuate, can_move) ==
  /\ ~never_evacuate
  /\ bytes > NewSpacePageEvacuationThreshold
  /\ can_move

\* EvacuatePagesInParallel of either collector, up to the evacuation job:
\* a page without live bytes is skipped, a page that should move is promoted
\* as a whole, and every page with live bytes becomes an item.
CollectNurseryItems ==
  /\ nursery_pc = "EvacuatePagesInParallel"
  /\ LET items == {p \in Pages : young_live_bytes[p] # 0}
     IN \E minor_mc_sweeping \in {FALSE, nursery_collector = "minor"},
           can_move \in SUBSET items :
          LET moved ==
                {p \in items :
                   \/ minor_mc_sweeping
                   \/ ShouldMovePage(young_live_bytes[p], FALSE,
                                     p \in can_move)}
          IN \E below_age_mark \in SUBSET moved :
               /\ can_move \subseteq moved
               /\ promotion' =
                    [p \in Pages |->
                       IF p \notin moved THEN "none"
                       ELSE IF \/ nursery_collector = "full"
                               \/ p \in below_age_mark
                       THEN "PAGE_NEW_OLD_PROMOTION"
                       ELSE "PAGE_NEW_NEW_PROMOTION"]
               /\ nursery_items' = items
               /\ nursery_pc' =
                    IF items = {} THEN "returned" ELSE "PageEvacuationJob"
  /\ UNCHANGED << nursery_collector, young_color, young_live_bytes,
                  young_map_word, copy_space, young_marked, failed_allocation,
                  olderVars,
                  besideNursery >>

\* RawEvacuatePage of either evacuator on a new-space page.  On a promoted
\* page the objects stay where they are and keep their mark bits; on any
\* other page the marked objects are visited in address order and their mark
\* bits cleared, until a visit ends the process.  The values computed on
\* the way are bound once each.
RawEvacuateNurseryPage ==
  /\ nursery_pc = "PageEvacuationJob"
  /\ \E p \in nursery_items :
       LET always == nursery_collector = "full"
           marked == MarkedObjectsOn(young_color, nursery_collector, p)
       IN \E input \in [marked -> VisitInputs(always)] :
            \E result \in {[o \in marked |->
                              EvacuateNewSpaceVisit(always, input[o])]} :
              \E fatal \in {{o \in marked : result[o] = "fatal"}} :
                \E visited \in
                     {IF promotion[p] # "none" THEN {}
                      ELSE {o \in marked : \A f \in fatal : o <= f}} :
                  \E migrated \in {visited \ fatal} :
                    /\ young_map_word' =
                         [o \in Objects |->
                            IF o \notin migrated THEN young_map_word[o]
                            ELSE IF result[o] = "forwarded"
                            THEN set_map_word(young_map_word[o],
                                              ThinStringActual(o))
                            ELSE set_map_word(young_map_word[o], Copy(o))]
                    /\ copy_space' =
                         [o \in Objects |->
                            IF o \in migrated /\ result[o] # "forwarded"
                            THEN result[o] ELSE copy_space[o]]
                    /\ young_color' =
                         [o \in Objects |->
                            IF o \in migrated THEN White ELSE young_color[o]]
                    /\ failed_allocation' =
                         failed_allocation \cup
                           {o \in visited :
                              AllocationsFailed(always, input[o])}
                    /\ nursery_items' = nursery_items \ {p}
                    /\ nursery_pc' =
                         IF visited \cap fatal # {} THEN "fatal"
                         ELSE nursery_pc
  /\ UNCHANGED << nursery_collector, young_live_bytes, promotion,
                  young_marked, olderVars,
                  besideNursery >>

\* The evacuation job is joined and EvacuatePagesInParallel returns.
NurseryEvacuationReturns ==
  /\ nursery_pc = "PageEvacuationJob"
  /\ nursery_items = {}
  /\ nursery_pc' = "returned"
  /\ UNCHANGED << nursery_collector, young_color, young_live_bytes,
                  young_map_word, copy_space, promotion, young_marked,
                  nursery_items, failed_allocation, olderVars,
                  besideNursery >>

NextNursery ==
  \/ CollectNurseryItems
  \/ RawEvacuateNurseryPage
  \/ NurseryEvacuationReturns

SpecNursery == InitNursery /\ [][NextNursery]_vars

(***************************************************************************)
(* The job machine: the loop shared by PageEvacuationJob::ProcessItems,    *)
(* PointersUpdatingJob::UpdatePointers and                                 *)
(* YoungGenerationMarkingJob::ProcessMarkingItems, one step for each       *)
(* access to the shared state.                                             *)
(***************************************************************************)
\* size_t arithmetic is modular; the model uses words of this many values.
WordModulus == 16

JobKinds ==
  {"PageEvacuationJob", "PointersUpdatingJob", "YoungGenerationMarkingJob"}

\* The job as its constructor leaves it, with the workers the platform runs.
InitJob ==
  /\ OlderQuiescent
  /\ NurseryQuiescent
  /\ YoungMarkQuiescent
  /\ SelectQuiescent
  /\ OrderQuiescent
  /\ WeakQuiescent
  /\ job_kind \in JobKinds
  /\ items_size \in 0..NumItems
  /\ remaining_items = items_size
  /\ acquired = [i \in Items |-> FALSE]
  /\ processed_by = [i \in Items |-> << >>]
  /\ generated = {}
  /\ \E count \in Workers :
       task_pc = [w \in Workers |-> IF w <= count THEN "while" ELSE "absent"]
  /\ task_index = [w \in Workers |-> 0]

\* IndexGenerator::GetNext hands out every index once, in an order of its
\* own, and then nothing.
GetNextChoices(size, handed) == (1..size) \ handed

AfterTryAcquireIgnored(success) == "Process"
\* if (!work_item.TryAcquire()) break;
AfterTryAcquire(success) == IF success THEN "Process" ELSE "while"

LastItemDoneEarly(previous) == previous <= 2
\* if (remaining_items_.fetch_sub(1) <= 1) return;
LastItemDone(previous) == previous <= 1

\* while (remaining_items_.load(std::memory_order_relaxed) > 0): the relaxed
\* load reads the counter or a value it held before.
WhileRemaining(w) ==
  /\ task_pc[w] = "while"
  /\ \E seen \in {remaining_items} \cup (remaining_items..items_size) :
       task_pc' = [task_pc EXCEPT ![w] =
                     IF seen > 0 THEN "GetNext" ELSE "returned"]
  /\ UNCHANGED << job_kind, items_size, acquired, processed_by,
                  remaining_items, generated, task_index, olderVars,
                  besideTasks >>

\* index = generator_.GetNext(); if (!index) return;
GetNext(w) ==
  /\ task_pc[w] = "GetNext"
  /\ IF GetNextChoices(items_size, generated) = {}
     THEN /\ task_pc' = [task_pc EXCEPT ![w] = "returned"]
          /\ UNCHANGED << generated, task_index >>
     ELSE \E index \in GetNextChoices(items_size, generated) :
            /\ generated' = generated \cup {index}
            /\ task_index' = [task_index EXCEPT ![w] = index]
            /\ task_pc' = [task_pc EXCEPT ![w] = "TryAcquire"]
  /\ UNCHANGED << job_kind, items_size, acquired, processed_by,
                  remaining_items, olderVars, besideTasks >>

\* work_item.TryAcquire(), an atomic exchange, and the break when it fails.
TryAcquire(w) ==
  /\ task_pc[w] = "TryAcquire"
  /\ acquired' = [acquired EXCEPT ![task_index[w]] = TRUE]
  /\ task_pc' = [task_pc EXCEPT ![w] =
                   AfterTryAcquire(~acquired[task_index[w]])]
  /\ UNCHANGED << job_kind, items_size, processed_by, remaining_items,
                  generated, task_index, olderVars, besideTasks >>

\* evacuator->EvacuatePage(item), work_item->Process(), or
\* work_item.Process(task) with task->EmptyMarkingWorklist().
ProcessItem(w) ==
  /\ task_pc[w] = "Process"
  /\ processed_by' = [processed_by EXCEPT ![task_index[w]] = Append(@, w)]
  /\ task_pc' = [task_pc EXCEPT ![w] = "fetch_sub"]
  /\ UNCHANGED << job_kind, items_size, acquired, remaining_items, generated,
                  task_index, olderVars, besideTasks >>

\* remaining_items_.fetch_sub(1), the return after the last item, and the
\* step of the for loop to the next index.
FetchSub(w) ==
  /\ task_pc[w] = "fetch_sub"
  /\ remaining_items' = (remaining_items - 1) % WordModulus
  /\ IF LastItemDone(remaining_items)
     THEN /\ task_pc' = [task_pc EXCEPT ![w] = "returned"]
          /\ UNCHANGED task_index
     ELSE /\ task_index' = [task_index EXCEPT ![w] = @ + 1]
          /\ task_pc' = [task_pc EXCEPT ![w] =
                           IF task_index[w] + 1 <= items_size
                           THEN "TryAcquire" ELSE "while"]
  /\ UNCHANGED << job_kind, items_size, acquired, processed_by, generated,
                  olderVars, besideTasks >>

TaskStep(w) ==
  \/ WhileRemaining(w)
  \/ GetNext(w)
  \/ TryAcquire(w)
  \/ ProcessItem(w)
  \/ FetchSub(w)

NextJob == \E w \in Workers : TaskStep(w)

SpecJob == InitJob /\ [][NextJob]_vars

\* Every worker the platform runs is scheduled again and again.
SpecJobFair == SpecJob /\ \A w \in Workers : WF_vars(TaskStep(w))

(***************************************************************************)
(* The young-generation marking machine:                                   *)
(* MinorMarkCompactCollector::MarkLiveObjects with the tasks of            *)
(* YoungGenerationMarkingJob.                                              *)
(***************************************************************************)
YoungRootChoices == {{}, {1}}
MarkingItemChoices == SUBSET {2, 3}
WeakYoungRootChoices == SUBSET {3, NumObjects}
YoungEdgeChoices == [Objects -> BOOLEAN]

\* Before marking nothing is marked and no page has live bytes.
InitYoungMark ==
  /\ OlderQuiescent
  /\ TasksQuiescent
  /\ SelectQuiescent
  /\ OrderQuiescent
  /\ WeakQuiescent
  /\ nursery_collector = "minor"
  /\ young_color = [o \in Objects |-> White]
  /\ young_live_bytes = [p \in Pages |-> 0]
  /\ young_map_word = [o \in Objects |-> 0]
  /\ copy_space = [o \in Objects |-> "none"]
  /\ promotion = [p \in Pages |-> "none"]
  /\ young_marked = {}
  /\ nursery_items = {}
  /\ failed_allocation = {}
  /\ nursery_pc = "idle"
  /\ \E choice \in YoungEdgeChoices :
       young_edges = [o \in Objects |->
                        IF choice[o] THEN {(o % NumObjects) + 1} ELSE {}]
  /\ young_roots \in YoungRootChoices
  /\ marking_items \in MarkingItemChoices
  /\ old_to_new_targets = marking_items
  /\ weak_visited = {}
  /\ weak_young_roots \in WeakYoungRootChoices
  /\ worklist = {}
  /\ local_live_bytes = [w \in Workers |-> [p \in Pages |-> 0]]
  /\ marking_task = [w \in Workers |-> "absent"]
  /\ young_pc = "MarkRootSetInParallel"

\* WhiteToGrey on each of the objects.
WhiteToGrey(colors, objects) ==
  [o \in Objects |-> IF o \in objects /\ colors[o] = White THEN Grey
                     ELSE colors[o]]

PushedByVisitOfRootsOnly(colors, object) ==
  {target \in young_edges[object] :
     colors[target] = White /\ object \in young_roots}
\* YoungGenerationMarkingVisitor::Visit: the objects the visit of an object
\* turns Grey and pushes.
PushedByVisit(colors, object) ==
  {target \in young_edges[object] : colors[target] = White}

\* YoungGenerationMarkingTask::IncrementLiveBytes
IncrementLiveBytes(bytes, object) ==
  [bytes EXCEPT ![ObjectPage(object)] = @ + ObjectSize(object)]

\* MarkRootSetInParallel up to the posting of the job: the roots are marked
\* and pushed by MarkRootObject, the main thread publishes its worklist, and
\* the platform starts the marking tasks.
MarkRootSetInParallel ==
  /\ young_pc = "MarkRootSetInParallel"
  /\ young_color' = WhiteToGrey(young_color, young_roots)
  /\ worklist' = young_roots
  /\ \E count \in Workers :
       marking_task' =
         [w \in Workers |-> IF w <= count THEN "running" ELSE "absent"]
  /\ young_pc' = "Join"
  /\ UNCHANGED << young_live_bytes, old_to_new_targets, weak_visited,
                  young_edges, young_roots, marking_items,
                  weak_young_roots, local_live_bytes, olderVars,
                  besideYoungMark >>

\* PageMarkingItem::Process: YoungGenerationMarkingTask::MarkObject on the
\* object a slot of the item refers to.
MarkingItemProcess(w) ==
  /\ young_pc = "Join"
  /\ marking_task[w] = "running"
  /\ \E object \in marking_items :
       /\ marking_items' = marking_items \ {object}
       /\ IF young_color[object] = White
          THEN LET colors == WhiteToGrey(young_color, {object})
               IN /\ young_color' =
                       WhiteToGrey(colors, PushedByVisit(colors, object))
                  /\ worklist' = worklist \cup PushedByVisit(colors, object)
                  /\ local_live_bytes' =
                       [local_live_bytes EXCEPT
                          ![w] = IncrementLiveBytes(@, object)]
          ELSE UNCHANGED << young_color, worklist, local_live_bytes >>
  /\ UNCHANGED << young_live_bytes, old_to_new_targets, weak_visited,
                  young_edges, young_roots,
                  weak_young_roots, marking_task, young_pc, olderVars,
                  besideYoungMark >>

\* One round of YoungGenerationMarkingTask::EmptyMarkingWorklist.
EmptyMarkingWorklistStep(w) ==
  /\ young_pc = "Join"
  /\ marking_task[w] = "running"
  /\ \E object \in worklist :
       /\ young_color' =
            WhiteToGrey(young_color, PushedByVisit(young_color, object))
       /\ worklist' =
            (worklist \ {object}) \cup PushedByVisit(young_color, object)
       /\ local_live_bytes' =
            [local_live_bytes EXCEPT ![w] = IncrementLiveBytes(@, object)]
  /\ UNCHANGED << young_live_bytes, old_to_new_targets, weak_visited,
                  young_edges, young_roots, marking_items,
                  weak_young_roots, marking_task, young_pc, olderVars,
                  besideYoungMark >>

\* The end of YoungGenerationMarkingJob::ProcessItems: no item and no object
\* is left, the task flushes its live bytes and returns.
FlushLiveBytes(w) ==
  /\ young_pc = "Join"
  /\ marking_task[w] = "running"
  /\ marking_items = {}
  /\ worklist = {}
  /\ young_live_bytes' =
       [p \in Pages |-> young_live_bytes[p] + local_live_bytes[w][p]]
  /\ marking_task' = [marking_task EXCEPT ![w] = "returned"]
  /\ UNCHANGED << young_color, old_to_new_targets, weak_visited,
                  young_edges, young_roots, marking_items,
                  weak_young_roots, worklist, local_live_bytes, young_pc,
                  olderVars, besideYoungMark >>

\* Join returns and the main thread runs DrainMarkingWorklist on its empty
\* worklist.
JoinYoungMarkingJob ==
  /\ young_pc = "Join"
  /\ \A w \in Workers : marking_task[w] # "running"
  /\ young_pc' = "ProcessWeakYoungObjects"
  /\ UNCHANGED << young_color, young_live_bytes, old_to_new_targets, weak_visited,
                  young_edges, young_roots,
                  marking_items, weak_young_roots, worklist, local_live_bytes,
                  marking_task, olderVars, besideYoungMark >>

\* The objects DrainMarkingWorklist visits, starting from the pushed ones.
RECURSIVE DrainMarkingWorklist(_, _)
DrainMarkingWorklist(colors, pushed) ==
  IF pushed = {} THEN colors
  ELSE LET object == CHOOSE o \in pushed : TRUE
       IN DrainMarkingWorklist(
            WhiteToGrey(colors, PushedByVisit(colors, object)),
            (pushed \ {object}) \cup PushedByVisit(colors, object))

\* ProcessWeakYoungObjects hands objects to the root visitor, whose
\* MarkRootObject marks and pushes the unmarked ones, and the main thread
\* drains its worklist with the main marking visitor.
ProcessWeakYoungObjects ==
  /\ young_pc = "ProcessWeakYoungObjects"
  /\ \E visited \in SUBSET weak_young_roots :
       /\ young_color' =
            DrainMarkingWorklist(
              WhiteToGrey(young_color, visited),
              {o \in visited : young_color[o] = White})
       /\ weak_visited' = visited
  /\ young_pc' = "done"
  /\ UNCHANGED << old_to_new_targets, young_live_bytes, young_edges,
                  young_roots, marking_items, weak_young_roots, worklist,
                  local_live_bytes, marking_task, olderVars,
                  besideYoungMark >>

MarkingTaskStep(w) ==
  \/ MarkingItemProcess(w)
  \/ EmptyMarkingWorklistStep(w)
  \/ FlushLiveBytes(w)

NextYoungMark ==
  \/ MarkRootSetInParallel
  \/ \E w \in Workers : MarkingTaskStep(w)
  \/ JoinYoungMarkingJob
  \/ ProcessWeakYoungObjects

SpecYoungMark == InitYoungMark /\ [][NextYoungMark]_vars

(***************************************************************************)
(* The selection machine: one call of CollectEvacuationCandidates on a     *)
(* space, in each selection mode and with each quota.                      *)
(***************************************************************************)
FORCE_EVACUATION_CANDIDATE_FOR_TESTING ==
  "FORCE_EVACUATION_CANDIDATE_FOR_TESTING"

\* The FLAG_ that decides the selection, in the order the code tests them;
\* "standard" is the path with none of them set.
SelectionModes ==
  {"standard", "manual_evacuation_candidates_selection",
   "stress_compaction_random", "stress_compaction",
   "compact_on_every_full_gc"}

\* What a page of the space may be, besides an ordinary page.
SelectSpecials ==
  {NEVER_EVACUATE, PINNED, "NEVER_ALLOCATE_ON_PAGE", "lab"}

\* The allocated bytes a page may have.
SpaceAllocatedChoices == {16, 100, 200}

\* A page of a space StartCompaction collected candidates of before this one.
OtherSpacePage == NumPages + 1

\* The heuristics of ComputeEvacuationHeuristics for the regular and the
\* memory-reducing heap, and the same with quotas that the few pages of the
\* model can exceed.
HeuristicsChoices ==
  {ComputeEvacuationHeuristics("regular"),
   ComputeEvacuationHeuristics("reduce_memory"),
   [target_fragmentation_percent |-> kTargetFragmentationPercent,
    max_evacuated_bytes |-> 120],
   [target_fragmentation_percent |->
      kTargetFragmentationPercentForReduceMemory,
    max_evacuated_bytes |-> 320]}

\* The space before the call: at most one page is special, and pages are
\* forced to be candidates only when candidates are selected manually.
\* evacuation_candidates_ is the collector's one list: it may hold a page of
\* a space collected earlier. The quota and the threshold are read on the
\* standard path alone, so the other modes take one value of them, and the
\* modes that never read the allocated bytes take one value of these.
InitSelect ==
  /\ OlderQuiescent
  /\ NurseryQuiescent
  /\ TasksQuiescent
  /\ YoungMarkQuiescent
  /\ OrderQuiescent
  /\ WeakQuiescent
  /\ selection_mode \in SelectionModes
  /\ heuristics \in HeuristicsChoices
  /\ selection_mode # "standard" => heuristics.max_evacuated_bytes = 120
  /\ space_allocated \in [Pages -> SpaceAllocatedChoices]
  /\ selection_mode \notin {"standard", "compact_on_every_full_gc"}
       => space_allocated = [p \in Pages |-> 100]
  /\ \E page \in Pages \cup {0}, special \in SelectSpecials,
        forced \in SUBSET Pages :
       /\ page = 0 => special = PINNED
       /\ selection_mode # "manual_evacuation_candidates_selection"
            => forced = {}
       /\ page \notin forced
       /\ linear_area_owner = IF special = "lab" THEN page ELSE 0
       /\ space_flags =
            [p \in Pages |->
               IF p = page /\ special # "lab" THEN {special}
               ELSE IF p \in forced
               THEN {FORCE_EVACUATION_CANDIDATE_FOR_TESTING}
               ELSE {}]
  /\ space_flags_before = space_flags
  /\ space_candidates \in {<< >>, << OtherSpacePage >>}
  /\ select_pc = "call"

SkippedBySelectionButPinned(pf, lab, p) ==
  \/ NEVER_EVACUATE \in pf[p]
  \/ p = lab
  \/ ~CanAllocate([page_flags |-> pf], p)
\* The pages the loop over the space passes over.
SkippedBySelection(pf, lab, p) ==
  \/ NEVER_EVACUATE \in pf[p]
  \/ p = lab
  \/ ~CanAllocate([page_flags |-> pf], p)
  \/ PINNED \in pf[p]

\* free_bytes_threshold = target_fragmentation_percent * (area_size / 100)
FreeBytesThreshold(h) == h.target_fragmentation_percent * (AreaSize \div 100)

\* The vector |pages| the loop over the space fills, in list order.
SelectionPages(pf, alloc, lab, mode, h) ==
  Ascending({p \in Pages :
               /\ ~SkippedBySelection(pf, lab, p)
               /\ mode = "standard"
                    => AreaSize - alloc[p] >= FreeBytesThreshold(h)})

SortKeepsOrder(alloc, pages) == {pages}
\* The orders std::sort may leave the vector in: ascending allocated bytes,
\* pages with equal keys in any order.
SortByAllocated(alloc, pages) ==
  {sorted \in [1..Len(pages) -> Range(pages)] :
     /\ \A i, j \in 1..Len(pages) : i # j => sorted[i] # sorted[j]
     /\ \A i, j \in 1..Len(pages) :
          i < j => alloc[sorted[i]] <= alloc[sorted[j]]}

\* The loop over the sorted vector that counts the pages fitting the quota.
RECURSIVE CountWithinQuota(_, _, _, _, _, _)
CountWithinQuota(alloc, sorted, i, count, total, mode_and_quota) ==
  IF i > Len(sorted)
  THEN [candidate_count |-> count, total_live_bytes |-> total]
  ELSE IF \/ mode_and_quota.mode = "compact_on_every_full_gc"
          \/ total + alloc[sorted[i]] <= mode_and_quota.max_evacuated_bytes
  THEN CountWithinQuota(alloc, sorted, i + 1, count + 1,
                        total + alloc[sorted[i]], mode_and_quota)
  ELSE CountWithinQuota(alloc, sorted, i + 1, count, total, mode_and_quota)

\* estimated_released_pages of a count and its total of live bytes.
EstimatedReleasedPages(count, total) ==
  count - ((total + AreaSize - 1) \div AreaSize)

KeptCountAlways(mode, count, total) == count
\* Avoid (compact -> expand) cycles: the count that is kept.
KeptCount(mode, count, total) ==
  IF /\ EstimatedReleasedPages(count, total) = 0
     /\ mode # "compact_on_every_full_gc"
  THEN 0
  ELSE count

\* The sequences of pages CollectEvacuationCandidates may pass to
\* AddEvacuationCandidate, in that order.
SelectedPages(pf, alloc, lab, mode, h) ==
  LET pages == SelectionPages(pf, alloc, lab, mode, h)
  IN IF mode = "manual_evacuation_candidates_selection"
     THEN {SelectSeq(pages,
                     LAMBDA p :
                       FORCE_EVACUATION_CANDIDATE_FOR_TESTING \in pf[p])}
     ELSE IF mode = "stress_compaction_random"
     THEN {Ascending(sample) : sample \in SUBSET Range(pages)}
     ELSE IF mode = "stress_compaction"
     THEN {Ascending({pages[i] : i \in {j \in 1..Len(pages) : j % 2 = 1}})}
     ELSE {LET q == CountWithinQuota(
                      alloc, sorted, 1, 0, 0,
                      [mode |-> mode,
                       max_evacuated_bytes |-> h.max_evacuated_bytes])
           IN SubSeq(sorted, 1,
                     KeptCount(mode, q.candidate_count, q.total_live_bytes))
           : sorted \in SortByAllocated(alloc, pages)}

\* MarkCompactCollector::CollectEvacuationCandidates on the space.
CollectEvacuationCandidatesCall ==
  /\ select_pc = "call"
  /\ \E selected \in SelectedPages(space_flags, space_allocated,
                                   linear_area_owner, selection_mode,
                                   heuristics) :
       LET cleared ==
             [p \in Pages |->
                IF p \in Range(selected)
                THEN space_flags[p] \
                       {FORCE_EVACUATION_CANDIDATE_FOR_TESTING}
                ELSE space_flags[p]]
           c == AddEvacuationCandidates(
                  [page_flags |-> cleared, cand |-> space_candidates],
                  selected)
       IN /\ space_flags' = c.page_flags
          /\ space_candidates' = c.cand
  /\ select_pc' = "returned"
  /\ UNCHANGED << selection_mode, heuristics, space_flags_before,
                  space_allocated, linear_area_owner, olderVars,
                  besideSelect >>

NextSelect == CollectEvacuationCandidatesCall

SpecSelect == InitSelect /\ [][NextSelect]_vars

(***************************************************************************)
(* The clearing-order machine: CollectGarbage up to the return of          *)
(* ClearNonLiveReferences, one step of the main thread or of the clearing  *)
(* job at a time.                                                          *)
(***************************************************************************)
ClearingStepsMapsLate(owns, sandboxed) ==
  << "MarkLiveObjects" >>
  \o (IF owns THEN << "StringForwardingTable" >> ELSE << >>)
  \o << "PostJob", "ExternalStringTable", "WeakGlobalHandles",
        "FlushableBytecode", "FlushedJsFunctions", "WeakLists",
        "WeakReferences", "Maps", "DependentCode" >>
  \o (IF sandboxed THEN << "ExternalPointerTable" >> ELSE << >>)
  \o << "Join" >>
\* What the main thread runs, in program order: MarkLiveObjects, then the
\* blocks of ClearNonLiveReferences.
ClearingSteps(owns, sandboxed) ==
  << "MarkLiveObjects" >>
  \o (IF owns THEN << "StringForwardingTable" >> ELSE << >>)
  \o << "PostJob", "ExternalStringTable", "WeakGlobalHandles",
        "FlushableBytecode", "FlushedJsFunctions", "WeakLists",
        "Maps", "WeakReferences", "DependentCode" >>
  \o (IF sandboxed THEN << "ExternalPointerTable" >> ELSE << >>)
  \o << "Join" >>

Begin(step) == [step |-> step, event |-> "begin"]
End(step) == [step |-> step, event |-> "end"]

InitClearOrder ==
  /\ OlderQuiescent
  /\ NurseryQuiescent
  /\ TasksQuiescent
  /\ YoungMarkQuiescent
  /\ SelectQuiescent
  /\ WeakQuiescent
  /\ owns_string_tables \in BOOLEAN
  /\ sandboxed_external_pointers \in BOOLEAN
  /\ clearing_pc = ClearingSteps(owns_string_tables,
                                 sandboxed_external_pointers)
  /\ clearing_item = "none"
  /\ clearing_log = << >>

\* A block the main thread runs from its beginning to its end.
ClearingMainStep ==
  /\ clearing_pc # << >>
  /\ Head(clearing_pc) \notin {"PostJob", "Join"}
  /\ clearing_log' = clearing_log \o << Begin(Head(clearing_pc)),
                                        End(Head(clearing_pc)) >>
  /\ clearing_pc' = Tail(clearing_pc)
  /\ UNCHANGED << owns_string_tables, sandboxed_external_pointers,
                  clearing_item, olderVars, besideOrder >>

\* clearing_job->Add(ClearStringTableJobItem) and PostJob
PostClearingJob ==
  /\ clearing_pc # << >>
  /\ Head(clearing_pc) = "PostJob"
  /\ clearing_item' = "queued"
  /\ clearing_pc' = Tail(clearing_pc)
  /\ UNCHANGED << owns_string_tables, sandboxed_external_pointers,
                  clearing_log, olderVars, besideOrder >>

\* ParallelClearingJob::Run takes the item, on a worker or on the joining
\* thread, and ClearStringTableJobItem::Run begins.
ClearStringTableJobItemBegins ==
  /\ clearing_item = "queued"
  /\ clearing_item' = "running"
  /\ clearing_log' = IF owns_string_tables
                     THEN Append(clearing_log, Begin("StringTable"))
                     ELSE clearing_log
  /\ UNCHANGED << owns_string_tables, sandboxed_external_pointers,
                  clearing_pc, olderVars, besideOrder >>

\* ClearStringTableJobItem::Run returns.
ClearStringTableJobItemEnds ==
  /\ clearing_item = "running"
  /\ clearing_item' = "done"
  /\ clearing_log' = IF owns_string_tables
                     THEN Append(clearing_log, End("StringTable"))
                     ELSE clearing_log
  /\ UNCHANGED << owns_string_tables, sandboxed_external_pointers,
                  clearing_pc, olderVars, besideOrder >>

\* clearing_job_handle->Join() returns once the item has run.
JoinClearingJob ==
  /\ clearing_pc # << >>
  /\ Head(clearing_pc) = "Join"
  /\ clearing_item = "done"
  /\ clearing_item' = "joined"
  /\ clearing_pc' = Tail(clearing_pc)
  /\ UNCHANGED << owns_string_tables, sandboxed_external_pointers,
                  clearing_log, olderVars, besideOrder >>

NextClearOrder ==
  \/ ClearingMainStep
  \/ PostClearingJob
  \/ ClearStringTableJobItemBegins
  \/ ClearStringTableJobItemEnds
  \/ JoinClearingJob

SpecClearOrder == InitClearOrder /\ [][NextClearOrder]_vars

(***************************************************************************)
(* The barrier machine: the worklists of the collector from the return of  *)
(* the final MarkTransitiveClosure to the checks of Finish.  The marking   *)
(* visitor fills the worklists; which of them hold something when the      *)
(* closure returns is any combination.                                     *)
(***************************************************************************)
MarkingWorklists ==
  {"marking_worklist", "current_ephemerons", "discovered_ephemerons"}

ClearingWorklists ==
  {"transition_arrays", "weak_references", "weak_objects_in_code",
   "js_weak_refs", "weak_cells", "code_flushing_candidates",
   "baseline_flushing_candidates", "flushed_js_functions"}

DrainedByLeavesWeakCells(step) ==
  CASE step = "ProcessOldCodeCandidates" -> {"code_flushing_candidates"}
    [] step = "ProcessFlushedBaselineCandidates" ->
         {"baseline_flushing_candidates"}
    [] step = "ClearFlushedJsFunctions" -> {"flushed_js_functions"}
    [] step = "ClearFullMapTransitions" -> {"transition_arrays"}
    [] step = "ClearWeakReferences" -> {"weak_references"}
    [] step = "ClearJSWeakRefs" -> {"js_weak_refs"}
    [] step = "MarkDependentCodeForDeoptimization" -> {"weak_objects_in_code"}
    [] OTHER -> {}
\* The worklists a step of ClearNonLiveReferences pops until they are empty.
DrainedBy(step) ==
  CASE step = "ProcessOldCodeCandidates" -> {"code_flushing_candidates"}
    [] step = "ProcessFlushedBaselineCandidates" ->
         {"baseline_flushing_candidates"}
    [] step = "ClearFlushedJsFunctions" -> {"flushed_js_functions"}
    [] step = "ClearFullMapTransitions" -> {"transition_arrays"}
    [] step = "ClearWeakReferences" -> {"weak_references"}
    [] step = "ClearJSWeakRefs" -> {"js_weak_refs", "weak_cells"}
    [] step = "MarkDependentCodeForDeoptimization" -> {"weak_objects_in_code"}
    [] OTHER -> {}

\* The steps from the CHECKs that end MarkLiveObjects to the start of the
\* sweeper tasks in Finish, in program order.
BarrierSteps ==
  << "MarkLiveObjectsChecks", "ProcessOldCodeCandidates",
     "ProcessFlushedBaselineCandidates", "ClearFlushedJsFunctions",
     "ClearFullMapTransitions", "ClearWeakReferences", "ClearWeakCollections",
     "ClearJSWeakRefs", "MarkDependentCodeForDeoptimization", "FinishChecks",
     "StartSweeperTasks" >>

InitBarriers ==
  /\ OlderQuiescent
  /\ NurseryQuiescent
  /\ TasksQuiescent
  /\ YoungMarkQuiescent
  /\ SelectQuiescent
  /\ OrderQuiescent
  /\ CollectionsQuiescent
  /\ FinalQuiescent
  /\ nonempty_worklists \in SUBSET (MarkingWorklists \cup ClearingWorklists)
  /\ filled_by_marking = nonempty_worklists
  /\ remote_tracing_done \in BOOLEAN
  /\ barrier_pc = BarrierSteps

\* The CHECKs after the final MarkTransitiveClosure of MarkLiveObjects.
MarkLiveObjectsChecks ==
  /\ barrier_pc # << >>
  /\ Head(barrier_pc) = "MarkLiveObjectsChecks"
  /\ barrier_pc' =
       IF nonempty_worklists \cap MarkingWorklists = {} /\ remote_tracing_done
       THEN Tail(barrier_pc) ELSE << "crashed" >>
  /\ UNCHANGED << nonempty_worklists, filled_by_marking, remote_tracing_done,
                  collectionVars, olderVars, besideWeak >>

\* A step of ClearNonLiveReferences that works on the weak objects.
ClearNonLiveReferencesStep ==
  /\ barrier_pc # << >>
  /\ Head(barrier_pc) \notin
       {"MarkLiveObjectsChecks", "FinishChecks", "StartSweeperTasks",
        "crashed"}
  /\ nonempty_worklists' = nonempty_worklists \ DrainedBy(Head(barrier_pc))
  /\ barrier_pc' = Tail(barrier_pc)
  /\ UNCHANGED << filled_by_marking, remote_tracing_done, collectionVars,
                  olderVars, besideWeak >>

\* The CHECKs of Finish on the ephemeron worklists.
FinishEphemeronChecks ==
  /\ barrier_pc # << >>
  /\ Head(barrier_pc) = "FinishChecks"
  /\ barrier_pc' =
       IF nonempty_worklists
            \cap {"current_ephemerons", "discovered_ephemerons"} = {}
       THEN Tail(barrier_pc) ELSE << "crashed" >>
  /\ UNCHANGED << nonempty_worklists, filled_by_marking, remote_tracing_done,
                  collectionVars, olderVars, besideWeak >>

NextBarriers ==
  \/ MarkLiveObjectsChecks
  \/ ClearNonLiveReferencesStep
  \/ FinishEphemeronChecks

SpecBarriers == InitBarriers /\ [][NextBarriers]_vars

(***************************************************************************)
(* ClearWeakCollections: the ephemeron hash tables that marking visited    *)
(* lose the entries with dead keys, and the ephemeron remembered set the   *)
(* tables that died.                                                       *)
(***************************************************************************)
NumTables == 2
MaxEntries == 2

\* The ephemeron hash tables, objects beside the ones they hold.
EphemeronHashTables == (2 * NumObjects + 1)..(2 * NumObjects + NumTables)

\* The entries a table may hold: a key with its successor as the value.
EntryChoices(table) ==
  {[table |-> table, key |-> k, value |-> (k % NumObjects) + 1] :
     k \in Objects}

\* non_atomic_marking_state()->IsBlackOrGrey(object)
IsBlackOrGrey(object) == object \in weak_marked

\* !is_shared_heap_ && object.InSharedHeap(): an object of the shared heap
\* seen by the collector of a client heap, which does not mark it.
SharedForClient(object) == ~is_shared_heap_ /\ object \in shared_objects

\* The condition of the CHECK_IMPLIES in ClearWeakCollections.
ValueHeldByKey(e) ==
  (SharedForClient(e.key) \/ IsBlackOrGrey(e.key))
    => (SharedForClient(e.value) \/ IsBlackOrGrey(e.value))

\* The state ClearWeakCollections starts in.  A collector marks the objects
\* of its own heap only; the tables on the worklist are the marked ones, and
\* in them marking has kept the value of every entry whose key it takes as
\* live.  The remembered set may still name a table that died.
InitWeakCollections ==
  /\ OlderQuiescent
  /\ NurseryQuiescent
  /\ TasksQuiescent
  /\ YoungMarkQuiescent
  /\ SelectQuiescent
  /\ OrderQuiescent
  /\ BarriersQuiescent
  /\ FinalQuiescent
  /\ is_shared_heap_ \in BOOLEAN
  /\ shared_objects \in SUBSET Objects
  /\ weak_marked \in SUBSET (Objects \cup EphemeronHashTables)
  /\ \A o \in weak_marked \cap Objects :
       is_shared_heap_ <=> o \in shared_objects
  /\ ephemeron_hash_tables = weak_marked \cap EphemeronHashTables
  /\ tables_before = ephemeron_hash_tables
  /\ table_entries \in
       {entries \in SUBSET UNION {EntryChoices(t) : t \in EphemeronHashTables} :
          \A t \in EphemeronHashTables :
            Cardinality({e \in entries : e.table = t}) <= MaxEntries}
  /\ \A e \in table_entries :
       e.table \in ephemeron_hash_tables => ValueHeldByKey(e)
  /\ entries_before = table_entries
  /\ ephemeron_remembered_set \in SUBSET EphemeronHashTables
  /\ remembered_before = ephemeron_remembered_set
  /\ weak_pc = "ephemeron_hash_tables"

RemovedEntriesNone(table) == {}
\* The entries the loop over table.IterateEntries() removes: those whose key
\* is not Black or Grey, unless the key is a shared object in a client heap.
RemovedEntries(table) ==
  {e \in table_entries :
     /\ e.table = table
     /\ ~SharedForClient(e.key)
     /\ ~IsBlackOrGrey(e.key)}

\* One round of the while loop: a table is popped and its entries visited.
ClearWeakCollectionsPop ==
  /\ weak_pc = "ephemeron_hash_tables"
  /\ \E table \in ephemeron_hash_tables :
       /\ ephemeron_hash_tables' = ephemeron_hash_tables \ {table}
       /\ table_entries' = table_entries \ RemovedEntries(table)
  /\ UNCHANGED << entries_before, weak_marked, shared_objects, is_shared_heap_,
                  tables_before, ephemeron_remembered_set, remembered_before,
                  weak_pc, barrierVars, olderVars, besideWeak >>

\* The worklist is empty: the tables that are not Black or Grey are erased
\* from the ephemeron remembered set, and ClearWeakCollections returns.
ClearEphemeronRememberedSet ==
  /\ weak_pc = "ephemeron_hash_tables"
  /\ ephemeron_hash_tables = {}
  /\ ephemeron_remembered_set' =
       {t \in ephemeron_remembered_set : IsBlackOrGrey(t)}
  /\ weak_pc' = "returned"
  /\ UNCHANGED << table_entries, entries_before, weak_marked, shared_objects,
                  is_shared_heap_, ephemeron_hash_tables, tables_before,
                  remembered_before, barrierVars, olderVars, besideWeak >>

NextWeakCollections ==
  \/ ClearWeakCollectionsPop
  \/ ClearEphemeronRememberedSet

SpecWeakCollections == InitWeakCollections /\ [][NextWeakCollections]_vars

(***************************************************************************)
(* PageEvacuationJob::GetMaxConcurrency, asked while the items of the job  *)
(* are processed.                                                          *)
(***************************************************************************)
MB == 1048576

\* Page::kPageSize is 1 << kPageSizeBits.
PageSizes == {131072, 262144, 524288, 1048576, 2097152, 4194304}

\* std::max and std::min of two numbers.
StdMax(a, b) == IF a < b THEN b ELSE a
StdMin(a, b) == IF b < a THEN b ELSE a

GetMaxConcurrencyRoundsDown(remaining, size, evacuators) ==
  StdMin(remaining \div StdMax(1, MB \div size), evacuators)
\* PageEvacuationJob::GetMaxConcurrency
GetMaxConcurrency(remaining, size, evacuators) ==
  LET kItemsPerWorker == StdMax(1, MB \div size)
      wanted_num_workers ==
        (remaining + kItemsPerWorker - 1) \div kItemsPerWorker
  IN StdMin(wanted_num_workers, evacuators)

\* The job as CreateAndExecuteEvacuationTasks makes it: an evacuator for
\* each wanted task and the items EvacuatePagesInParallel collected.
InitConcurrency ==
  /\ OlderQuiescent
  /\ NurseryQuiescent
  /\ TasksQuiescent
  /\ YoungMarkQuiescent
  /\ SelectQuiescent
  /\ OrderQuiescent
  /\ BarriersQuiescent
  /\ CollectionsQuiescent
  /\ ReportsQuiescent
  /\ PromotionQuiescent
  /\ HistoryQuiescent
  /\ ForwardingQuiescent
  /\ TransitionsQuiescent
  /\ RetainQuiescent
  /\ FinalizeQuiescent
  /\ OldToNewQuiescent
  /\ page_size \in PageSizes
  /\ evacuators_size \in 1..MaxEvacuators
  /\ remaining_evacuation_items \in 0..MaxRemainingItems
  /\ max_concurrency = -1

\* The platform asks the job how many workers it wants.
GetMaxConcurrencyCall ==
  /\ page_size # 0
  /\ max_concurrency' =
       GetMaxConcurrency(remaining_evacuation_items, page_size,
                         evacuators_size)
  /\ UNCHANGED << page_size, evacuators_size, remaining_evacuation_items,
                  transitionVars, retainVars, finalizeVars, oldToNewVars,
                  olderVars, besideFinal >>

\* A worker has evacuated a page: remaining_evacuation_items_.fetch_sub(1).
EvacuationItemDone ==
  /\ remaining_evacuation_items > 0
  /\ remaining_evacuation_items' = remaining_evacuation_items - 1
  /\ UNCHANGED << page_size, evacuators_size, max_concurrency,
                  transitionVars, retainVars, finalizeVars, oldToNewVars,
                  olderVars, besideFinal >>

NextConcurrency ==
  \/ GetMaxConcurrencyCall
  \/ EvacuationItemDone

SpecConcurrency == InitConcurrency /\ [][NextConcurrency]_vars

(***************************************************************************)
(* ClearFullMapTransitions on one transition array.                        *)
(***************************************************************************)
\* Smi::uninitialized_deserialization_value() in a target slot.
UninitializedTarget == 0

\* The descriptor array of the parent map, and another one.
ParentDescriptors == 1
DescriptorArrays == {ParentDescriptors, 2}

\* DescriptorArray(): the null handle passed for a dead parent.
NullDescriptors == 0

\* The targets of an array of n entries; the key of an entry is the
\* position it was inserted at.
TargetChoices(n) == [1..n -> Maps \cup {UninitializedTarget}]

\* non_atomic_marking_state()->IsWhite(target)
IsWhiteMap(target) == target \notin marked_maps

\* MarkCompactCollector::TransitionArrayNeedsCompaction: the loop from
\* entry i on.
RECURSIVE NeedsCompactionFrom(_, _)
NeedsCompactionFrom(transitions, i) ==
  IF i > Len(transitions) THEN FALSE
  ELSE IF transitions[i].target = UninitializedTarget THEN FALSE
  ELSE IF IsWhiteMap(transitions[i].target) THEN TRUE
  ELSE NeedsCompactionFrom(transitions, i + 1)

TransitionArrayNeedsCompaction(transitions) ==
  NeedsCompactionFrom(transitions, 1)

\* The loop of CompactTransitionArray from entry i on; c holds the array,
\* transition_index (from 1), descriptors_owner_died and the positions
\* handed to RecordSlot.
RECURSIVE CompactFrom(_, _, _)
CompactFrom(c, descriptors, i) ==
  IF i > Len(c.array) THEN c
  ELSE LET target == c.array[i].target
       IN IF IsWhiteMap(target)
          THEN CompactFrom(
                 [c EXCEPT !.died =
                    @ \/ (descriptors # NullDescriptors /\
                            instance_descriptors[target] = descriptors)],
                 descriptors, i + 1)
          ELSE CompactFrom(
                 [c EXCEPT
                    !.array = IF i # c.index
                              THEN [@ EXCEPT ![c.index] = c.array[i]]
                              ELSE @,
                    !.slots = IF i # c.index THEN @ \cup {c.index} ELSE @,
                    !.index = @ + 1],
                 descriptors, i + 1)

CompactTransitionArrayKeepsLength(transitions, descriptors) ==
  [array |-> transitions, died |-> FALSE, slots |-> {}]
\* MarkCompactCollector::CompactTransitionArray: the array afterwards, the
\* value returned and the slots recorded.
CompactTransitionArray(transitions, descriptors) ==
  IF ~TransitionArrayNeedsCompaction(transitions)
  THEN [array |-> transitions, died |-> FALSE, slots |-> {}]
  ELSE LET c == CompactFrom([array |-> transitions, index |-> 1,
                             died |-> FALSE, slots |-> {}],
                            descriptors, 1)
       IN IF c.index = Len(transitions) + 1
          THEN [array |-> c.array, died |-> FALSE, slots |-> c.slots]
          ELSE [array |-> SubSeq(c.array, 1, c.index - 1),
                died |-> c.died, slots |-> c.slots]

\* A transition array popped from the worklist.  A target can be dead only
\* in an array that is fully deserialized; the first target of an array
\* under deserialization may have no back pointer yet.
InitTransitions ==
  /\ OlderQuiescent
  /\ NurseryQuiescent
  /\ TasksQuiescent
  /\ YoungMarkQuiescent
  /\ SelectQuiescent
  /\ OrderQuiescent
  /\ BarriersQuiescent
  /\ CollectionsQuiescent
  /\ ReportsQuiescent
  /\ PromotionQuiescent
  /\ HistoryQuiescent
  /\ ForwardingQuiescent
  /\ ConcurrencyQuiescent
  /\ RetainQuiescent
  /\ FinalizeQuiescent
  /\ OldToNewQuiescent
  /\ marked_maps \in SUBSET Maps
  /\ \E n \in 0..MaxTransitions :
       \E targets \in TargetChoices(n) :
         /\ (\E i \in 1..n : targets[i] = UninitializedTarget)
              => \A i \in 1..n : targets[i] \in marked_maps \cup {UninitializedTarget}
         /\ transition_array = [i \in 1..n |-> [key |-> i, target |-> targets[i]]]
         /\ back_pointer_is_smi \in
              {b \in BOOLEAN :
                 b => \E i \in 1..n : targets[i] = UninitializedTarget}
  /\ array_before = transition_array
  /\ instance_descriptors \in [Maps -> DescriptorArrays]
  /\ parent_is_alive \in BOOLEAN
  /\ compact_called = FALSE
  /\ descriptors_owner_died = FALSE
  /\ transition_slots = {}
  /\ transition_pc = "transition_arrays"

\* One round of the loop of ClearFullMapTransitions.
ClearFullMapTransitionsPop ==
  /\ transition_pc = "transition_arrays"
  /\ transition_pc' = "returned"
  /\ IF /\ Len(transition_array) > 0
        /\ transition_array[1].target # UninitializedTarget
        /\ ~back_pointer_is_smi
     THEN \E compacted \in
               {CompactTransitionArray(
                  transition_array,
                  IF parent_is_alive THEN ParentDescriptors
                  ELSE NullDescriptors)} :
            /\ compact_called' = TRUE
            /\ transition_array' = compacted.array
            /\ descriptors_owner_died' = compacted.died
            /\ transition_slots' = compacted.slots
     ELSE UNCHANGED << compact_called, transition_array,
                       descriptors_owner_died, transition_slots >>
  /\ UNCHANGED << array_before, marked_maps, instance_descriptors,
                  parent_is_alive, back_pointer_is_smi, concurrencyVars,
                  retainVars, finalizeVars, oldToNewVars, olderVars,
                  besideFinal >>

NextTransitions == ClearFullMapTransitionsPop

SpecTransitions == InitTransitions /\ [][NextTransitions]_vars

(***************************************************************************)
(* MarkCompactWeakObjectRetainer over full collections: marking colours    *)
(* the reachable objects, ProcessAllWeakReferences asks RetainAs about     *)
(* every object of the weak lists, and the sweeper frees what is White.    *)
(***************************************************************************)
\* The sites from a site on along nested_site, the site included.
RECURSIVE NestedChain(_, _)
NestedChain(nested, site) ==
  IF site = 0 THEN {}
  ELSE {site} \cup NestedChain(nested, nested[site])

\* The sets of objects closed under the strong field nested_site.
ClosedUnderNested(S) ==
  \A o \in S : nested_site[o] # 0 => nested_site[o] \in S

RetainAsDropsSites(object) ==
  [retained |-> site_color[object] = Black, zombies |-> {}]
\* MarkCompactWeakObjectRetainer::RetainAs: whether the object is returned,
\* and the sites the call marks zombie and turns Black.
RetainAs(object) ==
  IF site_color[object] = Black
  THEN [retained |-> TRUE, zombies |-> {}]
  ELSE IF is_allocation_site[object] /\ ~is_zombie[object]
       THEN [retained |-> TRUE, zombies |-> NestedChain(nested_site, object)]
       ELSE [retained |-> FALSE, zombies |-> {}]

\* The heap before a full collection: sites with their nested sites, none
\* a zombie yet, and the objects the weak lists hold.
InitRetain ==
  /\ OlderQuiescent
  /\ NurseryQuiescent
  /\ TasksQuiescent
  /\ YoungMarkQuiescent
  /\ SelectQuiescent
  /\ OrderQuiescent
  /\ BarriersQuiescent
  /\ CollectionsQuiescent
  /\ ReportsQuiescent
  /\ PromotionQuiescent
  /\ HistoryQuiescent
  /\ ForwardingQuiescent
  /\ ConcurrencyQuiescent
  /\ TransitionsQuiescent
  /\ FinalizeQuiescent
  /\ OldToNewQuiescent
  /\ is_allocation_site \in [Sites -> BOOLEAN]
  /\ nested_site \in
       {n \in [Sites -> 0..NumSites] :
          \A o \in Sites :
            n[o] # 0 => /\ n[o] > o
                        /\ is_allocation_site[o]
                        /\ is_allocation_site[n[o]]}
  /\ is_zombie = [o \in Sites |-> FALSE]
  /\ site_color = [o \in Sites |-> White]
  /\ weak_list \in SUBSET Sites
  /\ to_retain = {}
  /\ site_reachable = Sites
  /\ site_freed = {}
  /\ retained_unreachable = [o \in Sites |-> 0]
  /\ last_retained = [object |-> 0, retained |-> FALSE]
  /\ retain_cycles = 0
  /\ retain_pc = "mutator"

\* The mutator has dropped references and marking has run: the objects
\* still reachable are Black, the others White.
MarkSites ==
  /\ retain_pc = "mutator"
  /\ retain_cycles < MaxRetainCycles
  /\ \E reached \in SUBSET site_reachable :
       /\ ClosedUnderNested(reached)
       /\ site_reachable' = reached
       /\ site_color' = [o \in Sites |->
                           IF o \in reached THEN Black ELSE White]
  /\ to_retain' = weak_list
  /\ retain_pc' = "weak_lists"
  /\ UNCHANGED << is_allocation_site, nested_site, is_zombie, weak_list,
                  site_freed, retained_unreachable, last_retained,
                  retain_cycles, concurrencyVars, transitionVars, finalizeVars,
                  oldToNewVars, olderVars, besideFinal >>

\* ProcessAllWeakReferences asks the retainer about an object of a list
\* and unlinks the object when the answer is empty.  MarkZombie resets the
\* nested site of the sites it marks.
RetainAsCall(object) ==
  /\ retain_pc = "weak_lists"
  /\ object \in to_retain
  /\ \E answer \in {RetainAs(object)} :
       /\ is_zombie' = [o \in Sites |->
                          is_zombie[o] \/ o \in answer.zombies]
       /\ nested_site' = [o \in Sites |->
                            IF o \in answer.zombies THEN 0
                            ELSE nested_site[o]]
       /\ site_color' = [o \in Sites |->
                           IF o \in answer.zombies THEN Black
                           ELSE site_color[o]]
       /\ weak_list' = IF answer.retained THEN weak_list
                       ELSE weak_list \ {object}
       /\ last_retained' = [object |-> object, retained |-> answer.retained]
  /\ to_retain' = to_retain \ {object}
  /\ UNCHANGED << is_allocation_site, site_reachable, site_freed,
                  retained_unreachable, retain_cycles, retain_pc,
                  concurrencyVars, transitionVars, finalizeVars, oldToNewVars,
                  olderVars, besideFinal >>

\* The weak lists are done and the collection ends: the sweeper frees the
\* White objects and the others lose their mark bits.
FinishRetainCycle ==
  /\ retain_pc = "weak_lists"
  /\ to_retain = {}
  /\ site_freed' = site_freed \cup {o \in Sites : site_color[o] = White}
  /\ retained_unreachable' =
       [o \in Sites |->
          IF site_color[o] = Black /\ o \notin site_reachable
          THEN retained_unreachable[o] + 1
          ELSE retained_unreachable[o]]
  /\ retain_cycles' = retain_cycles + 1
  /\ retain_pc' = "mutator"
  /\ UNCHANGED << is_allocation_site, nested_site, is_zombie, site_color,
                  weak_list, to_retain, site_reachable, last_retained,
                  concurrencyVars, transitionVars, finalizeVars, oldToNewVars,
                  olderVars, besideFinal >>

NextRetain ==
  \/ MarkSites
  \/ \E object \in Sites : RetainAsCall(object)
  \/ FinishRetainCycle

SpecRetain == InitRetain /\ [][NextRetain]_vars

(***************************************************************************)
(* CreateAndExecuteEvacuationTasks of the full collector: the evacuators   *)
(* record ephemerons with young keys while the job runs, and Finalize      *)
(* hands their sets to the heap.                                           *)
(***************************************************************************)
\* The ephemeron hash tables in the old generation and the indices of
\* their entries.
RememberedTables == 1..NumTables
EntryIndices == 1..MaxEntries

\* The pairs a remembered set holds for a table.
IndicesOf(entries, table) == {e \in entries : e[1] = table}

FinalizeMergesAll(tables, entries, own) ==
  [tables |-> tables \cup {e[1] : e \in own}, entries |-> entries \cup own]
\* FullEvacuator::Finalize on the heap's set: a table the heap has no entry
\* for is inserted with the indices of the evacuator; for a table it has
\* one, the indices are inserted into a copy of the heap's set of indices
\* (auto set = insert_result.first->second), which is then dropped.
FullEvacuatorFinalize(tables, entries, own) ==
  [tables |-> tables \cup {e[1] : e \in own},
   entries |-> entries \cup {e \in own : e[1] \notin tables}]

\* The job is posted.  The heap may have entries from before.
InitFinalize ==
  /\ OlderQuiescent
  /\ NurseryQuiescent
  /\ TasksQuiescent
  /\ YoungMarkQuiescent
  /\ SelectQuiescent
  /\ OrderQuiescent
  /\ BarriersQuiescent
  /\ CollectionsQuiescent
  /\ ReportsQuiescent
  /\ PromotionQuiescent
  /\ HistoryQuiescent
  /\ ForwardingQuiescent
  /\ ConcurrencyQuiescent
  /\ TransitionsQuiescent
  /\ RetainQuiescent
  /\ OldToNewQuiescent
  /\ heap_ephemeron_entries \in SUBSET (RememberedTables \X EntryIndices)
  /\ heap_ephemeron_tables \in
       {tables \in SUBSET RememberedTables :
          {e[1] : e \in heap_ephemeron_entries} \subseteq tables}
  /\ evacuator_entries = [w \in Workers |-> {}]
  /\ finalize_index = 0
  /\ finalize_pc = "PageEvacuationJob"

\* RecordMigratedSlotVisitor::VisitEphemeron of an evacuator, for an entry
\* whose key is in the young generation.
VisitEphemeron(w, table, index) ==
  /\ finalize_pc = "PageEvacuationJob"
  /\ <<table, index>> \notin evacuator_entries[w]
  /\ evacuator_entries' =
       [evacuator_entries EXCEPT ![w] = @ \cup {<<table, index>>}]
  /\ UNCHANGED << heap_ephemeron_tables, heap_ephemeron_entries,
                  finalize_index, finalize_pc, concurrencyVars,
                  transitionVars, retainVars, oldToNewVars, olderVars,
                  besideFinal >>

\* PostJob(...)->Join() returns.
JoinEvacuationJob ==
  /\ finalize_pc = "PageEvacuationJob"
  /\ finalize_pc' = "Finalize"
  /\ finalize_index' = 1
  /\ UNCHANGED << heap_ephemeron_tables, heap_ephemeron_entries,
                  evacuator_entries, concurrencyVars, transitionVars,
                  retainVars, oldToNewVars, olderVars, besideFinal >>

\* A round of the loop over the evacuators: evacuator->Finalize().
FinalizeEvacuator ==
  /\ finalize_pc = "Finalize"
  /\ \E merged \in {FullEvacuatorFinalize(heap_ephemeron_tables,
                                           heap_ephemeron_entries,
                                           evacuator_entries[finalize_index])} :
       /\ heap_ephemeron_tables' = merged.tables
       /\ heap_ephemeron_entries' = merged.entries
  /\ IF finalize_index = NumWorkers
     THEN finalize_pc' = "returned" /\ UNCHANGED finalize_index
     ELSE finalize_index' = finalize_index + 1 /\ UNCHANGED finalize_pc
  /\ UNCHANGED << evacuator_entries, concurrencyVars, transitionVars,
                  retainVars, oldToNewVars, olderVars, besideFinal >>

NextFinalize ==
  \/ \E w \in Workers, table \in RememberedTables, index \in EntryIndices :
       VisitEphemeron(w, table, index)
  \/ JoinEvacuationJob
  \/ FinalizeEvacuator

SpecFinalize == InitFinalize /\ [][NextFinalize]_vars

(***************************************************************************)
(* RememberedSetUpdatingItem on the OLD_TO_NEW slot sets, in the full and  *)
(* in the young-generation collector.                                      *)
(***************************************************************************)
\* The chunks with recorded slots; a slot lies on one of them.
SlotChunks == {1, 2}
ChunkOfSlot(t) == ((t - 1) % 2) + 1

\* What a recorded slot may hold when pointer updating begins: a Smi or a
\* cleared weak reference, or an object on a from-page (forwarded to a
\* to-page or to the old generation, or not at all), on a to-page, on a
\* to-page promoted new-to-new, or in the old generation.  The slot may
\* have been invalidated.
SlotStates ==
  {v \in [holds : {"smi", "cleared", "object"},
          page : {"none", "from", "to", "to_promoted", "old"},
          forwarding : {"none", "to", "old"},
          marked : BOOLEAN,
          valid : BOOLEAN] :
     /\ v.holds = "object" <=> v.page # "none"
     /\ v.forwarding # "none" => v.page = "from"
     /\ v.marked => v.page \in {"to", "to_promoted"}}

\* The full collector promotes every young object it keeps and every page
\* it moves to the old generation, and its to-space is empty.
SlotStatesOf(collector) ==
  IF collector = "MARK_COMPACTOR"
  THEN {v \in SlotStates :
          v.page \notin {"to", "to_promoted"} /\ v.forwarding # "to"}
  ELSE SlotStates

CheckAndUpdateOldToNewSlotKeepsToPage(v) ==
  [result |-> IF v.page \in {"to", "to_promoted"}
              THEN "KEEP_SLOT" ELSE "REMOVE_SLOT",
   value |-> v]
\* RememberedSetUpdatingItem::CheckAndUpdateOldToNewSlot: the answer and
\* what the slot holds afterwards.
CheckAndUpdateOldToNewSlot(v) ==
  IF v.holds # "object"
  THEN [result |-> "REMOVE_SLOT", value |-> v]
  ELSE IF v.page = "from"
  THEN LET updated ==
             IF v.forwarding # "none"
             THEN [v EXCEPT !.page = v.forwarding, !.forwarding = "none"]
             ELSE v
       IN [result |-> IF updated.page = "to"
                      THEN "KEEP_SLOT" ELSE "REMOVE_SLOT",
           value |-> updated]
  ELSE IF v.page \in {"to", "to_promoted"}
  THEN [result |-> IF v.page = "to_promoted" /\ ~v.marked
                   THEN "REMOVE_SLOT" ELSE "KEEP_SLOT",
        value |-> v]
  ELSE [result |-> "REMOVE_SLOT", value |-> v]

\* The copy phase is over and the updating items are collected: a chunk
\* with recorded slots has a slot set and an item.
InitOldToNew ==
  /\ OlderQuiescent
  /\ NurseryQuiescent
  /\ TasksQuiescent
  /\ YoungMarkQuiescent
  /\ SelectQuiescent
  /\ OrderQuiescent
  /\ BarriersQuiescent
  /\ CollectionsQuiescent
  /\ ReportsQuiescent
  /\ PromotionQuiescent
  /\ HistoryQuiescent
  /\ ForwardingQuiescent
  /\ ConcurrencyQuiescent
  /\ TransitionsQuiescent
  /\ RetainQuiescent
  /\ FinalizeQuiescent
  /\ updating_collector \in {"MARK_COMPACTOR", "MINOR_MARK_COMPACTOR"}
  /\ old_to_new_value \in [Slots -> SlotStatesOf(updating_collector)]
  /\ old_to_new_before = old_to_new_value
  /\ old_to_new_set \in SUBSET Slots
  /\ \A t \in Slots \ old_to_new_set : old_to_new_value[t] = SmiSlot
  /\ old_to_new_allocated \in
       {chunks \in SUBSET SlotChunks :
          {ChunkOfSlot(t) : t \in old_to_new_set} \subseteq chunks}
  /\ old_to_new_items = old_to_new_allocated

\* RememberedSetUpdatingItem::Process of a chunk, the OLD_TO_NEW part of
\* UpdateUntypedPointers: every slot of the set is filtered, checked and
\* updated, and an empty set is released.
UpdateOldToNewPointers(chunk) ==
  /\ chunk \in old_to_new_items
  /\ old_to_new_items' = old_to_new_items \ {chunk}
  /\ LET visited == {t \in old_to_new_set : ChunkOfSlot(t) = chunk}
         checked == {t \in visited : old_to_new_value[t].valid}
         kept == {t \in checked :
                    CheckAndUpdateOldToNewSlot(old_to_new_value[t]).result
                      = "KEEP_SLOT"}
     IN /\ old_to_new_value' =
             [t \in Slots |->
                IF t \in checked
                THEN CheckAndUpdateOldToNewSlot(old_to_new_value[t]).value
                ELSE old_to_new_value[t]]
        /\ old_to_new_set' = (old_to_new_set \ visited) \cup kept
        /\ old_to_new_allocated' =
             IF chunk \in old_to_new_allocated /\ kept = {}
             THEN old_to_new_allocated \ {chunk}
             ELSE old_to_new_allocated
  /\ UNCHANGED << updating_collector, old_to_new_before, concurrencyVars,
                  transitionVars, retainVars, finalizeVars, olderVars,
                  besideFinal >>

NextOldToNew == \E chunk \in SlotChunks : UpdateOldToNewPointers(chunk)

SpecOldToNew == InitOldToNew /\ [][NextOldToNew]_vars

(***************************************************************************)
(* The reports of aborted evacuation candidates: by the main thread for    *)
(* the pages the stack flags rule out, by the evacuators of the page       *)
(* evacuation job for the pages an allocation failed on.                   *)
(***************************************************************************)
\* The last page is a code page.
ReportOwner(p) == IF p = NumReportPages THEN "CODE_SPACE" ELSE "OLD_SPACE"

ReportConfigs ==
  [with_stack : BOOLEAN, compact_with_stack : BOOLEAN,
   compact_code_space_with_stack : BOOLEAN,
   crash_on_aborted_evacuation : BOOLEAN]

MutexGuardNotTaken(holder) == TRUE
\* base::MutexGuard guard(&mutex_): entered when no thread holds mutex_.
MutexGuard(holder) == holder = 0

\* The pages EvacuatePagesInParallel reports as aborted due to the flags.
ReportedDueToFlags(cf, candidates) ==
  IF /\ cf.with_stack
     /\ (~cf.compact_with_stack \/ ~cf.compact_code_space_with_stack)
  THEN {p \in candidates :
          ~cf.compact_with_stack \/ ReportOwner(p) = "CODE_SPACE"}
  ELSE {}

InitReports ==
  /\ OlderQuiescent
  /\ NurseryQuiescent
  /\ TasksQuiescent
  /\ YoungMarkQuiescent
  /\ SelectQuiescent
  /\ OrderQuiescent
  /\ BarriersQuiescent
  /\ CollectionsQuiescent
  /\ ConcurrencyQuiescent
  /\ TransitionsQuiescent
  /\ RetainQuiescent
  /\ FinalizeQuiescent
  /\ OldToNewQuiescent
  /\ PromotionQuiescent
  /\ HistoryQuiescent
  /\ ForwardingQuiescent
  /\ report_candidates \in SUBSET ReportPages
  /\ report_config \in ReportConfigs
  /\ compaction_was_aborted = {}
  /\ report_items = {}
  /\ due_to_oom = << >>
  /\ due_to_flags = << >>
  /\ mutex_ = 0
  /\ reporter = [w \in Reporters |-> IdleReporter]
  /\ failed_pages = {}
  /\ aborted_pages = 0
  /\ aborted_pages_verified = 0
  /\ report_pc = "EvacuatePagesInParallel"

reportRest ==
  << concurrencyVars, transitionVars, retainVars, finalizeVars, oldToNewVars,
     promotionVars, historyVars, forwardVars, olderVars, besideReports >>

\* EvacuatePagesInParallel up to the posting of the job: the candidates the
\* flags rule out are reported and flagged, the others become items.
ReportDueToFlags ==
  /\ report_pc = "EvacuatePagesInParallel"
  /\ LET aborted == ReportedDueToFlags(report_config, report_candidates)
     IN /\ due_to_flags' = Ascending(aborted)
        /\ compaction_was_aborted' = compaction_was_aborted \cup aborted
        /\ report_items' = report_candidates \ aborted
  /\ report_pc' = "PageEvacuationJob"
  /\ UNCHANGED << report_candidates, report_config, due_to_oom, mutex_,
                  reporter, failed_pages, aborted_pages,
                  aborted_pages_verified, reportRest >>

\* PageEvacuationJob::ProcessItems: an evacuator acquires an item and
\* evacuates the page; FullEvacuator::RawEvacuatePage, kObjectsOldToOld: if
\* an allocation failed the process dies under crash_on_aborted_evacuation
\* and the page is reported otherwise.
EvacuateItem(w) ==
  /\ report_pc = "PageEvacuationJob"
  /\ reporter[w].at = "idle"
  /\ \E p \in report_items, success \in BOOLEAN :
       /\ report_items' = report_items \ {p}
       /\ failed_pages' = IF success THEN failed_pages
                          ELSE failed_pages \cup {p}
       /\ reporter' =
            IF success \/ report_config.crash_on_aborted_evacuation
            THEN reporter
            ELSE [reporter EXCEPT ![w] = [at |-> "report", page |-> p,
                                          end |-> 0]]
       /\ report_pc' =
            IF ~success /\ report_config.crash_on_aborted_evacuation
            THEN "FatalProcessOutOfMemory"
            ELSE report_pc
  /\ UNCHANGED << report_candidates, report_config, compaction_was_aborted,
                  due_to_oom, due_to_flags, mutex_, aborted_pages,
                  aborted_pages_verified, reportRest >>

\* ReportAbortedEvacuationCandidateDueToOOM: the guard is entered.
ReportDueToOOMLock(w) ==
  /\ report_pc = "PageEvacuationJob"
  /\ reporter[w].at = "report"
  /\ MutexGuard(mutex_)
  /\ mutex_' = w
  /\ reporter' = [reporter EXCEPT ![w].at = "push_back"]
  /\ UNCHANGED << report_pc, report_candidates, report_config, compaction_was_aborted,
                  report_items, due_to_oom, due_to_flags, failed_pages,
                  aborted_pages, aborted_pages_verified, reportRest >>

\* push_back reads the end of the vector ...
PushBackReadsEnd(w) ==
  /\ report_pc = "PageEvacuationJob"
  /\ reporter[w].at = "push_back"
  /\ reporter' = [reporter EXCEPT ![w].at = "store",
                                  ![w].end = Len(due_to_oom)]
  /\ UNCHANGED << report_pc, report_candidates, report_config, compaction_was_aborted,
                  report_items, due_to_oom, due_to_flags, mutex_,
                  failed_pages, aborted_pages, aborted_pages_verified,
                  reportRest >>

\* ... and stores the pair behind it; the guard is left.
PushBackStores(w) ==
  /\ report_pc = "PageEvacuationJob"
  /\ reporter[w].at = "store"
  /\ due_to_oom' =
       SubSeq(due_to_oom, 1, reporter[w].end) \o << reporter[w].page >>
  /\ mutex_' = IF mutex_ = w THEN 0 ELSE mutex_
  /\ reporter' = [reporter EXCEPT ![w] = IdleReporter]
  /\ UNCHANGED << report_pc, report_candidates, report_config, compaction_was_aborted,
                  report_items, due_to_flags, failed_pages, aborted_pages,
                  aborted_pages_verified, reportRest >>

\* The job is joined: every item is acquired and every evacuator returned.
JoinReports ==
  /\ report_pc = "PageEvacuationJob"
  /\ report_items = {}
  /\ \A w \in Reporters : reporter[w].at = "idle"
  /\ report_pc' = "PostProcessEvacuationCandidates"
  /\ UNCHANGED << report_candidates, report_config, compaction_was_aborted,
                  report_items, due_to_oom, due_to_flags, mutex_, reporter,
                  failed_pages, aborted_pages, aborted_pages_verified,
                  reportRest >>

\* MarkCompactCollector::PostProcessEvacuationCandidates: ReRecordPage flags
\* every page of the two lists, and the flagged candidates are counted.
PostProcessReports ==
  /\ report_pc = "PostProcessEvacuationCandidates"
  /\ LET flagged == compaction_was_aborted \cup Range(due_to_oom)
                       \cup Range(due_to_flags)
     IN /\ compaction_was_aborted' = flagged
        /\ aborted_pages_verified' =
             Cardinality(report_candidates \cap flagged)
  /\ aborted_pages' = Len(due_to_oom) + Len(due_to_flags)
  /\ report_pc' = "Done"
  /\ UNCHANGED << report_candidates, report_config, report_items,
                  due_to_oom, due_to_flags, mutex_, reporter, failed_pages,
                  reportRest >>

NextReports ==
  \/ ReportDueToFlags
  \/ \E w \in Reporters : EvacuateItem(w)
  \/ \E w \in Reporters : ReportDueToOOMLock(w)
  \/ \E w \in Reporters : PushBackReadsEnd(w)
  \/ \E w \in Reporters : PushBackStores(w)
  \/ JoinReports
  \/ PostProcessReports

SpecReports == InitReports /\ [][NextReports]_vars

(***************************************************************************)
(* The promotion of nursery pages as a whole: EvacuatePagesInParallel of   *)
(* either collector over new_space_evacuation_pages_, and RawEvacuatePage  *)
(* on the items.  Bytes are counted in units of 1 KB.                      *)
(***************************************************************************)
AllocatableMemoryInDataPage == 40
kTaggedSize == 4
LiveBytesChoices == {0, 28, 32, 40}
PromotionThresholds == {50, 70}

\* Evacuator::NewSpacePageEvacuationThreshold
EvacuationThreshold(h) ==
  IF h.page_promotion
  THEN (h.page_promotion_threshold * AllocatableMemoryInDataPage) \div 100
  ELSE AllocatableMemoryInDataPage + kTaggedSize

ShouldMovePageAlsoNeverEvacuate(h, pg, always_promote_young) ==
  /\ ~h.reduce_memory
  /\ pg.live_bytes > EvacuationThreshold(h)
  /\ (always_promote_young \/ ~pg.contains_age_mark)
  /\ pg.can_expand
\* ShouldMovePage, with the answers of the heap about the page.
ShouldMovePageOn(h, pg, always_promote_young) ==
  /\ ~h.reduce_memory
  /\ ~pg.never_evacuate
  /\ pg.live_bytes > EvacuationThreshold(h)
  /\ (always_promote_young \/ ~pg.contains_age_mark)
  /\ pg.can_expand

\* The flag Move sets on a page EvacuatePagesInParallel moves, "none" for a
\* page it does not move.
MovedAs(collector, h, pg) ==
  IF pg.live_bytes = 0 THEN "none"
  ELSE IF collector = "MARK_COMPACTOR"
  THEN IF ShouldMovePageOn(h, pg, TRUE)
       THEN "PAGE_NEW_OLD_PROMOTION" ELSE "none"
  ELSE IF h.minor_mc_sweeping \/ ShouldMovePageOn(h, pg, FALSE)
  THEN IF pg.below_age_mark
       THEN "PAGE_NEW_OLD_PROMOTION" ELSE "PAGE_NEW_NEW_PROMOTION"
  ELSE "none"

\* Evacuator::ComputeEvacuationMode on a new-space page.
ComputeEvacuationMode(flag) ==
  IF flag = "PAGE_NEW_OLD_PROMOTION" THEN "kPageNewToOld"
  ELSE IF flag = "PAGE_NEW_NEW_PROMOTION" THEN "kPageNewToNew"
  ELSE "kObjectsNewToOld"

\* The pages of the nursery when the evacuation begins.  The full collector
\* does not read minor_mc_sweeping or NEW_SPACE_BELOW_AGE_MARK.
InitPromotion ==
  /\ OlderQuiescent
  /\ NurseryQuiescent
  /\ TasksQuiescent
  /\ YoungMarkQuiescent
  /\ SelectQuiescent
  /\ OrderQuiescent
  /\ BarriersQuiescent
  /\ CollectionsQuiescent
  /\ ConcurrencyQuiescent
  /\ TransitionsQuiescent
  /\ RetainQuiescent
  /\ FinalizeQuiescent
  /\ OldToNewQuiescent
  /\ ReportsQuiescent
  /\ HistoryQuiescent
  /\ ForwardingQuiescent
  /\ promo_collector \in {"MARK_COMPACTOR", "MINOR_MARK_COMPACTOR"}
  /\ promo_heap \in
       [reduce_memory : BOOLEAN, page_promotion : BOOLEAN,
        page_promotion_threshold : PromotionThresholds,
        minor_mc_sweeping : {FALSE, promo_collector # "MARK_COMPACTOR"}]
  /\ promo_page \in
       [NurseryPages ->
          [live_bytes : LiveBytesChoices, never_evacuate : BOOLEAN,
           contains_age_mark : BOOLEAN,
           below_age_mark : {FALSE, promo_collector # "MARK_COMPACTOR"},
           can_expand : BOOLEAN]]
  /\ promo_flag = [p \in NurseryPages |-> "none"]
  /\ promo_items = {}
  /\ evacuated_as = [p \in NurseryPages |-> "none"]
  /\ forwarding_installed = {}
  /\ promo_pc = "EvacuatePagesInParallel"

promotionRest ==
  << concurrencyVars, transitionVars, retainVars, finalizeVars, oldToNewVars,
     reportVars, historyVars, forwardVars, olderVars, besideReports >>

\* EvacuatePagesInParallel of either collector over the new-space pages: a
\* page without live bytes is skipped, a page that should move is moved,
\* and every page with live bytes becomes an item.
PromotePages ==
  /\ promo_pc = "EvacuatePagesInParallel"
  /\ promo_flag' =
       [p \in NurseryPages |->
          MovedAs(promo_collector, promo_heap, promo_page[p])]
  /\ promo_items' = {p \in NurseryPages : promo_page[p].live_bytes # 0}
  /\ promo_pc' = "PageEvacuationJob"
  /\ UNCHANGED << promo_collector, promo_heap, promo_page, evacuated_as,
                  forwarding_installed, promotionRest >>

\* RawEvacuatePage on a new-space page: on a promoted page the visitor of
\* the page records the slots of the objects or updates the allocation
\* sites; on any other page every marked object is copied and forwarded.
EvacuateNurseryItem(p) ==
  /\ promo_pc = "PageEvacuationJob"
  /\ p \in promo_items
  /\ promo_items' = promo_items \ {p}
  /\ evacuated_as' =
       [evacuated_as EXCEPT ![p] = ComputeEvacuationMode(promo_flag[p])]
  /\ forwarding_installed' =
       IF ComputeEvacuationMode(promo_flag[p]) = "kObjectsNewToOld"
       THEN forwarding_installed \cup {p}
       ELSE forwarding_installed
  /\ UNCHANGED << promo_collector, promo_heap, promo_page, promo_flag,
                  promo_pc, promotionRest >>

\* The job is joined.
PromotionJoined ==
  /\ promo_pc = "PageEvacuationJob"
  /\ promo_items = {}
  /\ promo_pc' = "returned"
  /\ UNCHANGED << promo_collector, promo_heap, promo_page, promo_flag,
                  promo_items, evacuated_as, forwarding_installed,
                  promotionRest >>

NextPromotion ==
  \/ PromotePages
  \/ \E p \in NurseryPages : EvacuateNurseryItem(p)
  \/ PromotionJoined

SpecPromotion == InitPromotion /\ [][NextPromotion]_vars

(***************************************************************************)
(* The forwarding addresses of an evacuation: EvacuateNewSpaceVisitor on   *)
(* the objects of the from-pages, EvacuateOldSpaceVisitor on the objects   *)
(* of an evacuation candidate, and UpdateSlot on the fields.               *)
(***************************************************************************)
\* The address of the copy of an object.
CopyOf(o) == o + NumForwarded

\* The kind of page an address is on.
PageOfAddress(a) ==
  IF a <= NumForwarded THEN fw_page[a] ELSE fw_copy_page[a - NumForwarded]

TryEvacuateWithoutCopyOntoCandidates(o) ==
  /\ ~fw_incremental
  /\ o \in fw_thin
\* EvacuateNewSpaceVisitor::TryEvacuateWithoutCopy: a ThinString is
\* forwarded to its actual string, the referent of its field.
TryEvacuateWithoutCopy(o) ==
  /\ ~fw_incremental
  /\ o \in fw_thin
  /\ fw_page[fw_slot[o]] # "candidate"

\* The kinds of page the allocator of the evacuation hands out for a copy
\* of a nursery object: the full collector always promotes.
TargetPages(collector) ==
  IF collector = "MARK_COMPACTOR" THEN {"old"} ELSE {"old", "to"}

\* The objects the evacuators visit: those of the from-pages, and in the
\* full collector those of the candidate until an allocation fails.
ToVisit ==
  {o \in ForwardedObjects \ fw_visited :
     \/ fw_page[o] = "from"
     \/ /\ fw_page[o] = "candidate"
        /\ fw_collector = "MARK_COMPACTOR"
        /\ ~fw_aborted}

\* UpdateSlot: a reference to an object whose map word is a forwarding
\* address is replaced by that address.
UpdateSlotTo(words, value) ==
  IF value # 0 /\ value <= NumForwarded /\ words[value] # 0
  THEN words[value] ELSE value

\* The state the copy phase starts in: every object is live.  The actual
\* string of a ThinString is internalized and so in the old generation;
\* the full collector runs with incremental marking finished, and outside
\* incremental marking the young-generation collector finds no candidate.
InitForwarding ==
  /\ OlderQuiescent
  /\ NurseryQuiescent
  /\ TasksQuiescent
  /\ YoungMarkQuiescent
  /\ SelectQuiescent
  /\ OrderQuiescent
  /\ BarriersQuiescent
  /\ CollectionsQuiescent
  /\ ConcurrencyQuiescent
  /\ TransitionsQuiescent
  /\ RetainQuiescent
  /\ FinalizeQuiescent
  /\ OldToNewQuiescent
  /\ ReportsQuiescent
  /\ PromotionQuiescent
  /\ HistoryQuiescent
  /\ fw_collector \in {"MARK_COMPACTOR", "MINOR_MARK_COMPACTOR"}
  /\ fw_incremental \in {FALSE, fw_collector = "MINOR_MARK_COMPACTOR"}
  /\ fw_page \in [ForwardedObjects -> {"from", "candidate", "old"}]
  /\ (fw_collector = "MINOR_MARK_COMPACTOR" /\ ~fw_incremental)
       => \A o \in ForwardedObjects : fw_page[o] # "candidate"
  /\ fw_slot \in [ForwardedObjects -> 0..NumForwarded]
  /\ fw_thin \in SUBSET ForwardedObjects
  /\ \A o \in fw_thin :
       /\ fw_slot[o] \notin {0, o}
       /\ fw_slot[o] \notin fw_thin
       /\ fw_page[fw_slot[o]] \in {"candidate", "old"}
  /\ fw_map_word = [o \in ForwardedObjects |-> 0]
  /\ fw_copy_page = [o \in ForwardedObjects |-> "none"]
  /\ fw_visited = {}
  /\ fw_aborted = FALSE
  /\ fw_updated = {}
  /\ fw_rewritten = {}
  /\ fw_pc = "EvacuatePagesInParallel"

forwardRest ==
  << concurrencyVars, transitionVars, retainVars, finalizeVars, oldToNewVars,
     reportVars, promotionVars, historyVars, olderVars, besideReports >>

\* The visit of the next object in address order.  On a from-page,
\* EvacuateNewSpaceVisitor::Visit: the object is forwarded without a copy,
\* or copied to a page the allocator hands out, or the process dies.  On
\* the candidate, EvacuateOldSpaceVisitor::Visit: the object is copied to a
\* page of its space that is no candidate, or the page is aborted.
EvacuateObject ==
  /\ fw_pc = "EvacuatePagesInParallel"
  /\ ToVisit # {}
  /\ LET o == CHOOSE v \in ToVisit : \A w \in ToVisit : v <= w
     IN /\ fw_visited' = fw_visited \cup {o}
        /\ IF fw_page[o] = "from" /\ TryEvacuateWithoutCopy(o)
           THEN /\ fw_map_word' = [fw_map_word EXCEPT ![o] = fw_slot[o]]
                /\ UNCHANGED << fw_copy_page, fw_aborted, fw_pc >>
           ELSE \E target \in
                     (IF fw_page[o] = "from" THEN TargetPages(fw_collector)
                      ELSE {"old"}) \cup {"none"} :
                  IF target # "none"
                  THEN /\ fw_map_word' =
                            [fw_map_word EXCEPT ![o] = CopyOf(o)]
                       /\ fw_copy_page' =
                            [fw_copy_page EXCEPT ![o] = target]
                       /\ UNCHANGED << fw_aborted, fw_pc >>
                  ELSE /\ fw_aborted' =
                            (fw_aborted \/ fw_page[o] = "candidate")
                       /\ fw_pc' = IF fw_page[o] = "from"
                                   THEN "FatalProcessOutOfMemory" ELSE fw_pc
                       /\ UNCHANGED << fw_map_word, fw_copy_page >>
  /\ UNCHANGED << fw_collector, fw_incremental, fw_page, fw_thin, fw_slot,
                  fw_updated, fw_rewritten, forwardRest >>

\* The evacuation job is joined.
EvacuationJoined ==
  /\ fw_pc = "EvacuatePagesInParallel"
  /\ ToVisit = {}
  /\ fw_pc' = "UpdatePointersAfterEvacuation"
  /\ UNCHANGED << fw_collector, fw_incremental, fw_page, fw_thin, fw_slot,
                  fw_map_word, fw_copy_page, fw_visited, fw_aborted,
                  fw_updated, fw_rewritten, forwardRest >>

\* UpdateSlot on the field of an object, where the object is now.
UpdateField(o) ==
  /\ fw_pc = "UpdatePointersAfterEvacuation"
  /\ o \notin fw_updated
  /\ fw_updated' = fw_updated \cup {o}
  /\ fw_slot' = [fw_slot EXCEPT ![o] = UpdateSlotTo(fw_map_word, @)]
  /\ fw_rewritten' =
       IF UpdateSlotTo(fw_map_word, fw_slot[o]) # fw_slot[o]
       THEN fw_rewritten \cup {o} ELSE fw_rewritten
  /\ UNCHANGED << fw_collector, fw_incremental, fw_page, fw_thin,
                  fw_map_word, fw_copy_page, fw_visited, fw_aborted, fw_pc,
                  forwardRest >>

NextForwarding ==
  \/ EvacuateObject
  \/ EvacuationJoined
  \/ \E o \in ForwardedObjects : UpdateField(o)

SpecForwarding == InitForwarding /\ [][NextForwarding]_vars






(***************************************************************************)
(* Claims about the collector state machine and the phase order.           *)
(***************************************************************************)
Last(s) == s[Len(s)]

\* A cycle of CollectGarbage has run to the end of Finish.
CycleDone == pc = "idle" /\ Len(phase_log) > 1 /\ Last(phase_log) = "Finish"

StatesOfACycle ==
  << IDLE, PREPARE_GC, MARK_LIVE_OBJECTS, SWEEP_SPACES, IDLE >>

\* C6, as amended: in every full cycle state_ takes the values IDLE,
\* PREPARE_GC, MARK_LIVE_OBJECTS, SWEEP_SPACES, IDLE in this order and no
\* others; RELOCATE_OBJECTS is never entered, Finish runs from SWEEP_SPACES.
C6_StateSequence ==
  /\ IsPrefix(state_history, StatesOfACycle)
  /\ Last(state_history) = state_
  /\ CycleDone => state_history = StatesOfACycle
  /\ state_ # RELOCATE_OBJECTS

C6_Witness == CycleDone /\ state_history = StatesOfACycle /\ rejected = "none"

\* C6 as the spec states it: the sequence of a full cycle passes through
\* RELOCATE_OBJECTS before it returns to IDLE.
C6_Original ==
  CycleDone =>
    state_history = << IDLE, PREPARE_GC, MARK_LIVE_OBJECTS, SWEEP_SPACES,
                       RELOCATE_OBJECTS, IDLE >>

\* Steps of the harness and of the phases.
Calls(op) == calls_left' = calls_left - 1 /\ invoked' = op
Enters(ph) == pc = ph /\ pc' # ph
Rejects == pc # "crashed" /\ pc' = "crashed"

\* C7, as amended: Prepare asserts IDLE and moves to PREPARE_GC;
\* MarkLiveObjects asserts PREPARE_GC and moves to MARK_LIVE_OBJECTS; Finish
\* asserts SWEEP_SPACES or RELOCATE_OBJECTS and moves to IDLE; a call of one
\* of these three in another state is rejected by the assertion.
\* StartSweepSpaces asserts nothing about the state and sets SWEEP_SPACES
\* from any state; Evacuate neither checks nor changes the state.  No other
\* step changes the state.
C7_PhaseAssertions ==
  [][ /\ Calls("Prepare") =>
           IF state_ = IDLE
           THEN Rejects \/ state_' = PREPARE_GC
           ELSE Rejects /\ rejected' = "Prepare" /\ state_' = state_
      /\ Enters("MarkLiveObjects") =>
           IF state_ = PREPARE_GC
           THEN ~Rejects /\ state_' = MARK_LIVE_OBJECTS
           ELSE Rejects /\ rejected' = "MarkLiveObjects" /\ state_' = state_
      /\ Enters("Finish") =>
           IF state_ \in {SWEEP_SPACES, RELOCATE_OBJECTS}
           THEN ~Rejects /\ state_' = IDLE
           ELSE Rejects /\ rejected' = "Finish" /\ state_' = state_
      /\ Enters("StartSweepSpaces") => Rejects \/ state_' = SWEEP_SPACES
      /\ Enters("Evacuate") => ~Rejects /\ state_' = state_
      /\ state_' # state_ =>
           \/ Calls("Prepare")
           \/ Enters("MarkLiveObjects")
           \/ Enters("StartSweepSpaces")
           \/ Enters("Finish") ]_vars

C7_Witness ==
  /\ pc = "idle" /\ rejected = "none"
  /\ invoked = "StartSweepSpaces"
  /\ state_history = << IDLE, SWEEP_SPACES >>

\* C7 as the spec states it: only Prepare leaves IDLE, and every later phase
\* asserts the state its predecessor set.
C7_Original ==
  [][ /\ (state_ = IDLE /\ state_' # IDLE) => Calls("Prepare")
      /\ (Enters("MarkLiveObjects") /\ state_ # PREPARE_GC) => Rejects
      /\ (Enters("StartSweepSpaces") /\ state_ # MARK_LIVE_OBJECTS) => Rejects
      /\ (Enters("Evacuate") /\ state_ # SWEEP_SPACES) => Rejects
      /\ (Enters("Finish") /\ state_ # RELOCATE_OBJECTS) => Rejects ]_vars

PhaseOrder ==
  << "Prepare", "MarkLiveObjects", "ClearNonLiveReferences", "VerifyMarking",
     "StartSweepSpaces", "Evacuate", "EvacuatePrologue",
     "EvacuatePagesInParallel", "UpdatePointersAfterEvacuation",
     "EvacuateEpilogue", "Finish" >>

\* C8: the phases of a cycle begin in the order Prepare, MarkLiveObjects,
\* ClearNonLiveReferences, VerifyMarking, StartSweepSpaces, Evacuate (with
\* EvacuatePrologue, EvacuatePagesInParallel, UpdatePointersAfterEvacuation,
\* EvacuateEpilogue), Finish, and a phase begins only when no item of a job
\* posted by an earlier phase is still pending.
C8_PhaseOrder ==
  [][ /\ IsPrefix(phase_log', PhaseOrder)
      /\ phase_log' # phase_log => job.pending = {}
      /\ (pc # "idle" /\ pc' = "idle") => phase_log' = PhaseOrder ]_vars

C8_Witness ==
  /\ CycleDone /\ phase_log = PhaseOrder
  /\ flags.parallel_marking /\ released_pages # {}

\* C9: AbortCompaction can be called in any collector state; afterwards the
\* candidate list is empty, compacting_ is false and the collector state is
\* the one before the call.
C9_AbortCompaction ==
  [][ Calls("AbortCompaction") =>
        /\ ~Rejects
        /\ evacuation_candidates_' = << >>
        /\ compacting_' = FALSE
        /\ state_' = state_ ]_vars

\* Prepare had selected the old-space pages, and AbortCompaction ran in
\* PREPARE_GC.
C9_Witness ==
  /\ invoked = "AbortCompaction" /\ rejected = "none"
  /\ state_history = << IDLE, PREPARE_GC >>
  /\ ~is_marking
  /\ \A p \in PagesOf("OLD_SPACE") : allocated_bytes[p] = 16
  /\ evacuation_candidates_ = << >>

\* The two runs that C10 compares, from the current state.
PrepareAlone == Prepare(Collector)
AbortThenPrepare == Prepare(AbortCompaction(Collector))

AtIdle == pc = "idle" /\ state_ = IDLE /\ rejected = "none"

\* The collector with nothing selected, in PREPARE_GC.
NothingSelected ==
  [state |-> PREPARE_GC, compacting |-> FALSE, cand |-> << >>,
   page_flags |-> [p \in Pages |-> page_flags[p] \ {EVACUATION_CANDIDATE}],
   old_to_old |-> [p \in Pages |-> FALSE]]

\* C10, as amended: from an IDLE state with compacting_ false, AbortCompaction
\* followed by Prepare gives the same candidate list, compacting_, candidate
\* flags, OLD_TO_OLD slot sets and collector state as Prepare alone.  From an
\* IDLE state with compacting_ true (incremental marking chose the candidates)
\* the two differ: Prepare alone keeps the candidates, their flags and the
\* recorded slots, AbortCompaction followed by Prepare ends with no
\* candidate, compacting_ false and no OLD_TO_OLD slot set.
C10_AbortThenPrepare ==
  AtIdle =>
    /\ ~compacting_ => AbortThenPrepare = PrepareAlone
    /\ compacting_ =>
         /\ is_marking
         /\ PrepareAlone = {[Collector EXCEPT !.state = PREPARE_GC]}
         /\ AbortThenPrepare = {NothingSelected}
         /\ AbortThenPrepare # PrepareAlone

C10_Witness ==
  /\ AtIdle /\ compacting_ /\ is_marking
  /\ \E p \in Pages : old_to_old[p]
  /\ Len(evacuation_candidates_) >= 2

\* C10 as the spec states it: from any IDLE state AbortCompaction followed by
\* Prepare is equivalent to Prepare alone.
C10_Original == AtIdle => AbortThenPrepare = PrepareAlone


(***************************************************************************)
(* Claims about marking.                                                   *)
(***************************************************************************)
\* The least set that holds the seeds, the strong referents of its members
\* and the value of every ephemeron whose table and key are members.
RECURSIVE Closure(_)
Closure(S) ==
  LET step == S \cup {r[2] : r \in {s \in strong : s[1] \in S}}
                \cup {e.value : e \in {x \in ephemerons :
                                         x.table \in S /\ x.key \in S}}
  IN IF step = S THEN S ELSE Closure(step)

Reachable == Closure(roots)

MarkingDone == mark_pc = "done"


\* What marking reaches from the roots and from the objects that were marked
\* before MarkLiveObjects began.
Marked == Closure(roots \cup premarked)

\* C1 (as stated): at the end of MarkLiveObjects an object is Black if it is
\* reachable from the roots through strong references and ephemerons with a
\* reachable key, and White otherwise; no object is Grey.
C1_Original ==
  MarkingDone =>
    \A o \in Objects : color[o] = IF o \in Reachable THEN Black ELSE White

\* C1 (amended): at the end of MarkLiveObjects every object reachable from
\* the roots is Black; an object that is not a filler is Black if it is
\* reachable from the roots or from an object marked before MarkLiveObjects
\* began, and White otherwise; only a filler that left trimming put on the
\* worklist may be Grey.
C1_MarkLiveObjects ==
  MarkingDone =>
    /\ \A o \in Reachable : color[o] = Black
    /\ \A o \in Objects \ fillers :
         color[o] = IF o \in Marked THEN Black ELSE White
    /\ \A o \in fillers : color[o] # White

\* Marking ended after the parallel and the final closure, an object is Black
\* through an ephemeron alone, and an object marked before MarkLiveObjects
\* began is Black though unreachable.
C1_Witness ==
  /\ MarkingDone
  /\ closures = 2
  /\ \E o \in Reachable :
       /\ color[o] = Black
       /\ o \notin roots
       /\ \A r \in strong : r[2] # o
  /\ \E o \in premarked \ Reachable : color[o] = Black

\* The ephemerons the collector knows: the entries of visited tables.
KnownEphemerons == {e \in ephemerons : color[e.table] = Black}

EphemeronsClosed ==
  /\ \A e \in KnownEphemerons :
       color[e.key] = Black => color[e.value] = Black
  /\ \A e \in next_ephemerons : ~ProcessEphemeron(MarkState, e).marked

ClosureReturns == mark_pc = "closure_returned"

\* C2 (as stated): in the state any MarkTransitiveClosure returns in, the
\* value of every known ephemeron with a Black key is Black, and
\* ProcessEphemeron marks nothing on the ephemerons left in next_ephemerons.
C2_Original ==
  [][(mark_pc # "closure_returned" /\ mark_pc' = "closure_returned")
       => EphemeronsClosed']_vars

\* C2 (amended): when a MarkTransitiveClosure that runs with no parallel
\* marking task returns, by fixpoint or by the linear algorithm, the value
\* of every known ephemeron with a Black key is Black, and ProcessEphemeron
\* marks nothing on the ephemerons left in next_ephemerons.
C2_MarkTransitiveClosure ==
  (ClosureReturns /\ ~parallel_marking_) => EphemeronsClosed

\* The linear algorithm returned, and an ephemeron that it held in
\* key_to_values has a Black key and a Black value that nothing else refers
\* to.
C2_Witness ==
  /\ ClosureReturns
  /\ ~parallel_marking_
  /\ finished_by = "linear"
  /\ \E e \in KnownEphemerons :
       /\ color[e.key] = Black
       /\ color[e.value] = Black
       /\ e.value \notin roots
       /\ \A r \in strong : r[2] # e.value
       /\ << e.key, e.value >> \in key_to_values

\* The same, for a closure that returned by fixpoint iteration.
C2_WitnessFixpoint ==
  /\ ClosureReturns
  /\ ~parallel_marking_
  /\ finished_by = "fixpoint"
  /\ closures = 1
  /\ \E e \in KnownEphemerons :
       /\ color[e.key] = Black
       /\ color[e.value] = Black
       /\ e.value \notin roots
       /\ \A r \in strong : r[2] # e.value


(***************************************************************************)
(* Claims about weak-reference clearing.                                   *)
(***************************************************************************)
ClearingDone == clear_pc = "done"

\* The slot held a weak reference to an object of this colour when clearing
\* began.
WeakTo(s, colors) ==
  slot_before[s].kind = "weak" /\ color[slot_before[s].target] \in colors

\* RecordSlot enters the slot into OLD_TO_OLD: the referent lies on an
\* evacuation candidate and the host does not.
MustBeRecorded(s) ==
  /\ EVACUATION_CANDIDATE \in page_flags[PageOf(slot_before[s].target)]
  /\ EVACUATION_CANDIDATE \notin page_flags[PageOf(HostOf(s))]

\* C3: after ClearWeakReferences no slot that was on the weak_references
\* worklist refers to a White object; a slot whose referent is unmarked
\* holds the cleared value; a slot whose referent is marked still refers to
\* it and has been given to RecordSlot, which enters it into OLD_TO_OLD when
\* the referent lies on an evacuation candidate and the host does not.
C3_ClearWeakReferences ==
  ClearingDone =>
    \A s \in weak_references_before :
      /\ slot_value[s].kind \in {"weak", "strong"} =>
           color[slot_value[s].target] # White
      /\ WeakTo(s, {White}) => slot_value[s] = ClearedValue
      /\ WeakTo(s, {Grey, Black}) =>
           /\ slot_value[s] = slot_before[s]
           /\ MustBeRecorded(s) => s \in old_to_old_slots

\* Clearing ended: one recorded slot was cleared, another still refers to
\* its marked referent and was entered into OLD_TO_OLD, a third had been
\* overwritten and is untouched.
C3_Witness ==
  /\ ClearingDone
  /\ \E s \in weak_references_before :
       WeakTo(s, {White}) /\ slot_value[s] = ClearedValue
  /\ \E s \in weak_references_before :
       /\ WeakTo(s, {Black})
       /\ slot_value[s] = slot_before[s]
       /\ s \in old_to_old_slots
  /\ \E s \in weak_references_before :
       slot_before[s].kind \in {"strong", "smi"} /\ slot_value[s] = slot_before[s]

(***************************************************************************)
(* Claims about evacuation and pointer updating.                           *)
(***************************************************************************)
\* The page evacuation job is joined and nothing has run since.
CopyPhaseDone == evac_pc = "PageEvacuationJob" /\ Joined

\* The candidates whose evacuation was not aborted.
EvacuatedPages ==
  Range(old_space_evacuation_pages_) \ (aborted_oom \cup aborted_flags)

\* C4: after the parallel copy phase, every object that was Black on an
\* evacuation candidate that was not aborted has a forwarding address as its
\* map word, and the target is a copy of the object, on a page of the same
\* space that is not an evacuation candidate.
C4_ForwardingAfterCopy ==
  CopyPhaseDone =>
    \A o \in live_before :
      ObjectPage(o) \in EvacuatedPages =>
        /\ map_word[o] = Copy(o)
        /\ map_word[Copy(o)] = 0
        /\ field[Copy(o)] = field[o]
        /\ copy_page[o] \in Pages
        /\ PageOwner(copy_page[o]) = PageOwner(ObjectPage(o))
        /\ EVACUATION_CANDIDATE \notin page_flags[copy_page[o]]

\* One candidate was evacuated, an object holding a reference among its
\* objects, while the evacuation of another ran out of memory after its
\* first object was migrated.
C4_Witness ==
  /\ CopyPhaseDone
  /\ \E o \in live_before :
       /\ ObjectPage(o) \in EvacuatedPages
       /\ IsStrongOrWeak(field[o])
       /\ map_word[o] = Copy(o)
  /\ \E p \in aborted_oom :
       /\ failed_object[p] # 0
       /\ \E o \in live_before : ObjectPage(o) = p /\ map_word[o] # 0

\* The objects that are live after evacuation, at their final addresses.
LiveAddresses ==
  {IF map_word[o] # 0 THEN map_word[o] ELSE o : o \in live_before}

PointersUpdated == evac_pc = "done"

AfterPostProcess ==
  pc \in {"UpdatePointersAfterEvacuation", "UpdatePointersJoin",
          "EvacuateCleanUp"}

\* C11: a candidate whose evacuation ran out of memory does not stop the
\* collection.  After PostProcessEvacuationCandidates it has
\* COMPACTION_WAS_ABORTED and is no candidate; the clean-up block of Evacuate
\* hands it to the sweeper, once in the cycle; EvacuateEpilogue does not
\* release it, while it releases every candidate that was not aborted, none
\* of which went to the sweeper; and the cycle runs to the end of Finish with
\* the collector IDLE.
C11_AbortedPageIsSwept ==
  /\ [](\A p \in aborted_oom :
         /\ rejected = "none"
         /\ AfterPostProcess =>
              /\ COMPACTION_WAS_ABORTED \in page_flags[p]
              /\ EVACUATION_CANDIDATE \notin page_flags[p]
              /\ sweeper_pages[p] = 0
         /\ pc = "EvacuateEpilogue" =>
              /\ sweeper_pages[p] = 1
              /\ p \notin ReleaseEvacuationCandidates)
  /\ [][pc = "EvacuateEpilogue" =>
         /\ \A p \in aborted_oom :
              p \notin released_pages' /\ sweeper_pages'[p] = 1
         /\ \A p \in Range(old_space_evacuation_pages_) \ aborted_oom :
              p \in released_pages' /\ sweeper_pages'[p] = 0]_vars
  /\ ((aborted_oom # {}) ~> (CycleDone /\ state_ = IDLE))

\* A cycle in which one candidate ran out of memory and another was
\* evacuated has reached the epilogue of Evacuate.
C11_Witness ==
  /\ pc = "EvacuateEpilogue"
  /\ aborted_oom # {}
  /\ ~flags.crash_on_aborted_evacuation
  /\ Range(old_space_evacuation_pages_) \ aborted_oom # {}

\* The pages whose evacuation was aborted part-way: an allocation failed
\* after one object or more had been migrated.
AbortedPartWay ==
  {p \in aborted_oom :
     \E o \in Objects : ObjectPage(o) = p /\ map_word[o] # 0}

\* The slot of an object is in the OLD_TO_OLD slot set or typed slot set
\* whenever it refers to an object on a page chosen for evacuation.
Rerecorded(o) ==
  (IsStrongOrWeak(field[o]) /\
     ObjectPage(field[o].target) \in Range(old_space_evacuation_pages_))
    => o \in slot_set \cup typed_slot_set

\* C12 as stated: on a page aborted part-way no object has a forwarding
\* address in its map word once the pointers are updated, and after
\* PostProcessEvacuationCandidates the slots of the objects that are still
\* marked are recorded.
C12_Original ==
  \A p \in AbortedPartWay :
    /\ PointersUpdated =>
         \A o \in Objects : ObjectPage(o) = p => map_word[o] = 0
    /\ evac_pc = "UpdatePointersAfterEvacuation" =>
         \A o \in BlackObjectsOn(p) : Rerecorded(o)

\* C12, as amended: on a page aborted part-way no object that is still
\* marked has a forwarding address in its map word; the objects with a
\* forwarding address are those migrated before the failing object, they
\* are unmarked and keep the address through pointer updating; and after
\* PostProcessEvacuationCandidates the slots of the marked objects are
\* recorded.
C12_AbortedPartWay ==
  \A p \in AbortedPartWay :
    /\ \A o \in BlackObjectsOn(p) : map_word[o] = 0
    /\ \A o \in Objects :
         (ObjectPage(o) = p /\ map_word[o] # 0) =>
           /\ o \in live_before
           /\ o < failed_object[p]
           /\ color[o] = White
           /\ map_word[o] = Copy(o)
    /\ \A o \in live_before :
         (ObjectPage(o) = p /\ o < failed_object[p]) => map_word[o] = Copy(o)
    /\ evac_pc = "UpdatePointersAfterEvacuation" =>
         \A o \in BlackObjectsOn(p) : Rerecorded(o)

\* The pointers are updated; on a page aborted part-way the first object
\* has a forwarding address and the second, still marked, had its slot
\* recorded and updated to the copy of the first.
C12_Witness ==
  /\ PointersUpdated
  /\ \E p \in AbortedPartWay :
       \E o \in BlackObjectsOn(p) :
         /\ IsStrongOrWeak(field[o])
         /\ IsCopy(field[o].target)
         /\ map_word[field[o].target - NumObjects] = field[o].target
         /\ ObjectPage(field[o].target - NumObjects) = p

(***************************************************************************)
(* Claims about the evacuation of the nursery.                             *)
(***************************************************************************)
\* The pages EvacuatePagesInParallel made evacuation items of.
NurseryItemPages == {p \in Pages : young_live_bytes[p] # 0}

AllReturned == \A w \in Workers : task_pc[w] \in {"returned", "absent"}

\* C14: in PageEvacuationJob no item is passed to EvacuatePage by two
\* workers or twice by one worker, whatever the interleaving and wherever
\* the workers start, and once the workers have returned every item has been
\* passed to it once.
C14_EvacuatePageExactlyOnce ==
  job_kind = "PageEvacuationJob" =>
    /\ \A i \in Items : Len(processed_by[i]) <= 1
    /\ AllReturned => \A i \in 1..items_size : Len(processed_by[i]) = 1

\* A worker walking up from its index meets an item another worker has
\* processed.
C14_Witness ==
  /\ job_kind = "PageEvacuationJob"
  /\ \E w \in Workers :
       /\ task_pc[w] = "TryAcquire"
       /\ Len(processed_by[task_index[w]]) = 1
       /\ processed_by[task_index[w]][1] # w
       /\ \E i \in Items : processed_by[i] = << w >>

\* C15: under fair scheduling every worker of the three jobs returns, and
\* once all have returned every item is acquired and processed and the
\* counter of remaining items is 0.
C15_WorkersReturn ==
  /\ <>[]AllReturned
  /\ [](AllReturned =>
          /\ remaining_items = 0
          /\ \A i \in 1..items_size :
               acquired[i] /\ Len(processed_by[i]) >= 1)

\* Two workers of the marking job have returned, each having processed an
\* item.
C15_Witness ==
  /\ job_kind = "YoungGenerationMarkingJob"
  /\ AllReturned
  /\ items_size = NumItems
  /\ \A w \in Workers : \E i \in Items : processed_by[i] = << w >>

(***************************************************************************)
(* Claims about the live bytes of the young generation.                    *)
(***************************************************************************)
\* The bytes of the Grey objects of a page.
GreyBytes(p) ==
  SizeOf({o \in Objects : ObjectPage(o) = p /\ young_color[o] = Grey})

C16_LiveBytesAfterJoin ==
  young_pc = "ProcessWeakYoungObjects"
    => \A p \in Pages : young_live_bytes[p] = GreyBytes(p)

Selected == Range(space_candidates) \cap Pages

\* The pages the standard path considers, by the state before the call.
EligibleBefore ==
  {p \in Pages :
     /\ NEVER_EVACUATE \notin space_flags_before[p]
     /\ PINNED \notin space_flags_before[p]
     /\ "NEVER_ALLOCATE_ON_PAGE" \notin space_flags_before[p]
     /\ p # linear_area_owner
     /\ AreaSize - space_allocated[p] >= FreeBytesThreshold(heuristics)}

\* C17: in every selection mode no candidate is pinned, marked never to be
\* evacuated, the owner of the linear allocation area or a page that cannot
\* allocate, and on the standard path no candidate has fewer free bytes than
\* target_fragmentation_percent * (area_size / 100).
C17_CandidatesAreEligible ==
  \A p \in Selected :
    /\ PINNED \notin space_flags_before[p]
    /\ NEVER_EVACUATE \notin space_flags_before[p]
    /\ p # linear_area_owner
    /\ "NEVER_ALLOCATE_ON_PAGE" \notin space_flags_before[p]
    /\ selection_mode = "standard"
         => AreaSize - space_allocated[p] >= FreeBytesThreshold(heuristics)

\* Each of the four modes selects pages next to a special page it leaves
\* out, and the standard path leaves out a page with too few free bytes.
C17_Witness ==
  /\ select_pc = "returned"
  /\ Selected # {}
  /\ \/ /\ selection_mode = "standard"
        /\ \E p \in Pages \ Selected :
             /\ space_flags_before[p] = {}
             /\ p # linear_area_owner
             /\ AreaSize - space_allocated[p] < FreeBytesThreshold(heuristics)
     \/ /\ selection_mode = "stress_compaction_random"
        /\ \E p \in Pages \ Selected : PINNED \in space_flags_before[p]

RECURSIVE SumAllocated(_)
SumAllocated(S) ==
  IF S = {} THEN 0
  ELSE LET p == CHOOSE q \in S : TRUE
       IN space_allocated[p] + SumAllocated(S \ {p})

\* The largest k for which some k eligible pages, hence the k with the
\* fewest allocated bytes, fit the quota.
LargestFittingCount ==
  LET fitting ==
        {Cardinality(S) :
           S \in {T \in SUBSET EligibleBefore :
                    SumAllocated(T) <= heuristics.max_evacuated_bytes}}
  IN CHOOSE k \in fitting : \A other \in fitting : other <= k

\* The selected pages are some first k of the eligible pages in ascending
\* allocated bytes.
SelectedIsPrefixOfSize(k) ==
  /\ Selected \subseteq EligibleBefore
  /\ Cardinality(Selected) = k
  /\ \A p \in Selected : EVACUATION_CANDIDATE \in space_flags[p]
  /\ \A p \in Selected, q \in EligibleBefore \ Selected :
       space_allocated[p] <= space_allocated[q]

StandardPathReturned ==
  select_pc = "returned" /\ selection_mode = "standard"

\* C18 as stated: on the standard path the selected pages are the first k
\* eligible pages in ascending allocated bytes, k the largest count whose
\* allocated bytes fit max_evacuated_bytes.
C18_Original ==
  StandardPathReturned => SelectedIsPrefixOfSize(LargestFittingCount)

\* C18: the same, unless these k pages are predicted to release no page, in
\* which case no page is selected.
C18_GreedyPrefix ==
  StandardPathReturned =>
    \/ SelectedIsPrefixOfSize(LargestFittingCount)
    \/ /\ Selected = {}
       /\ \E k \in {LargestFittingCount} :
            \E S \in SUBSET EligibleBefore :
              /\ Cardinality(S) = k
              /\ SumAllocated(S) <= heuristics.max_evacuated_bytes
              /\ EstimatedReleasedPages(k, SumAllocated(S)) = 0

\* The quota leaves out an eligible page while two lighter ones are selected.
C18_Witness ==
  /\ StandardPathReturned
  /\ Cardinality(Selected) >= 2
  /\ \E q \in EligibleBefore \ Selected :
       \A p \in Selected : space_allocated[p] < space_allocated[q]

\* The pages that fit the quota are predicted to release no page: their
\* count less the pages their live bytes fill is zero.
NoPageReleased ==
  \E k \in {LargestFittingCount}, eligible \in {EligibleBefore} :
    \E S \in SUBSET eligible :
      /\ Cardinality(S) = k
      /\ \A p \in S, q \in eligible \ S :
           space_allocated[p] <= space_allocated[q]
      /\ EstimatedReleasedPages(k, SumAllocated(S)) = 0

\* C19 as stated: on the standard path, when the predicted number of
\* released pages is zero, the candidate list is empty after the selection:
\* no page is an evacuation candidate.
C19_Original ==
  (StandardPathReturned /\ NoPageReleased) => space_candidates = << >>

\* C19: on the standard path, when the predicted number of released pages is
\* zero, no page of the space becomes an evacuation candidate; the list
\* keeps the candidates of the spaces collected before.
C19_NoReleaseNoCandidates ==
  (StandardPathReturned /\ NoPageReleased) =>
    /\ Selected = {}
    /\ \A p \in Pages : EVACUATION_CANDIDATE \notin space_flags[p]
    /\ space_candidates \in {<< >>, << OtherSpacePage >>}

\* Two eligible pages fit the quota and fill two pages: none is selected.
C19_Witness ==
  /\ StandardPathReturned
  /\ NoPageReleased
  /\ space_candidates = << OtherSpacePage >>
  /\ LargestFittingCount = 2
  /\ \E S \in SUBSET EligibleBefore :
       /\ Cardinality(S) = 2
       /\ EstimatedReleasedPages(2, SumAllocated(S)) = 0

(***************************************************************************)
(* Claims about the order of the clearing steps.                           *)
(***************************************************************************)
\* The event e1 is in the log before the event e2.
LoggedBefore(e1, e2) ==
  \E i, j \in 1..Len(clearing_log) :
    i < j /\ clearing_log[i] = e1 /\ clearing_log[j] = e2

Begun(step) == Begin(step) \in Range(clearing_log)

\* The steps in the order the claim gives them.
ClaimedOrder ==
  << "StringForwardingTable", "StringTable", "ExternalStringTable",
     "WeakGlobalHandles", "FlushableBytecode", "WeakLists", "Maps",
     "WeakReferences", "DependentCode" >>

\* Of the steps in the sequence, each one that has begun did so after the
\* end of every earlier one that has begun.
OneAfterAnother(steps) ==
  \A i, j \in 1..Len(steps) :
    (i < j /\ Begun(steps[i]) /\ Begun(steps[j]))
      => LoggedBefore(End(steps[i]), Begin(steps[j]))

\* No clearing step begins before MarkLiveObjects has returned.
AfterMarking ==
  \A step \in Range(ClaimedOrder) :
    Begun(step) => LoggedBefore(End("MarkLiveObjects"), Begin(step))

ClearNonLiveReferencesReturned ==
  clearing_pc = << >> /\ clearing_log # << >>

\* C20 as stated: the clearing steps begin after marking and run strictly
\* one after another in the order given, each ending before the next begins.
C20_Original == AfterMarking /\ OneAfterAnother(ClaimedOrder)

\* C20: the clearing steps begin after marking, and those of the main thread
\* run one after another in the order given; the internalized string table
\* is cleared by a job posted after the string forwarding table step, which
\* may run beside the later steps and has ended when ClearNonLiveReferences
\* returns.
C20_ClearingOrder ==
  /\ AfterMarking
  /\ OneAfterAnother(SelectSeq(ClaimedOrder, LAMBDA st : st # "StringTable"))
  /\ OneAfterAnother(<< "StringForwardingTable", "StringTable" >>)
  /\ (ClearNonLiveReferencesReturned /\ owns_string_tables)
       => End("StringTable") \in Range(clearing_log)

\* The string table was cleared while the main thread ran the steps from
\* the external string table to the weak references.
C20_Witness ==
  /\ ClearNonLiveReferencesReturned
  /\ LoggedBefore(End("StringForwardingTable"), Begin("StringTable"))
  /\ LoggedBefore(Begin("StringTable"), Begin("ExternalStringTable"))
  /\ LoggedBefore(End("WeakReferences"), End("StringTable"))
  /\ LoggedBefore(End("StringTable"), Begin("DependentCode"))

(***************************************************************************)
(* Claims about the ephemeron algorithms.                                  *)
(***************************************************************************)
\* Every pair of a key and a value ProcessEphemeron may be called with.
EphemeronPairs == [table : {1}, key : Objects, value : Objects]

\* C28: ProcessEphemeron(key, value) with a Grey or Black key turns a White
\* value Grey, pushes it on the marking worklist and returns true, and leaves
\* a marked value alone; with a White key it pushes the pair to
\* next_ephemerons when the value is White and drops it when the value is
\* marked; it returns true only when it turned the value Grey, and the key
\* keeps its colour.
C28_ProcessEphemeron ==
  \A e \in EphemeronPairs, m \in {MarkState} :
    \A r \in {ProcessEphemeron(m, e)},
       key_marked \in {m.color[e.key] # White},
       value_white \in {m.color[e.value] = White} :
       /\ (key_marked /\ value_white) =>
            /\ r.marked
            /\ r.m.color = [m.color EXCEPT ![e.value] = Grey]
            /\ r.m.worklist = m.worklist \cup {e.value}
            /\ r.m.next = m.next
       /\ (key_marked /\ ~value_white) => (r.m = m /\ ~r.marked)
       /\ (~key_marked /\ value_white) =>
            /\ ~r.marked
            /\ r.m = [m EXCEPT !.next = m.next \cup {e}]
       /\ (~key_marked /\ ~value_white) => (r.m = m /\ ~r.marked)
       /\ r.marked <=> (m.color[e.value] = White
                          /\ r.m.color[e.value] = Grey)
       /\ r.m.color[e.key] = m.color[e.key]
       /\ r.m.discovered = m.discovered

\* In the first loop of ProcessEphemerons one call has turned a value Grey
\* and returned true, and another has pushed its pair to next_ephemerons.
C28_Witness ==
  /\ mark_pc = "current_ephemerons"
  /\ current_ephemerons = {}
  /\ another_ephemeron_iteration_main_thread
  /\ \E e \in next_ephemerons : color[e.value] = White
  /\ \E e \in ephemerons \ next_ephemerons :
       color[e.key] # White /\ color[e.value] = Grey

\* The objects that are marked.
MarkedObjects == {o \in Objects : color[o] # White}

\* C26: MarkTransitiveClosureLinear ends with the marked objects of the
\* fixpoint iteration run to its end, which are the least set closed under
\* the strong references and the ephemerons: it marks no object outside it
\* and leaves none of it White, whatever the heap and the pending ephemerons.
C26_LinearMarksTheFixpoint ==
  ClosureReturns => MarkedObjects = Marked

\* The linear algorithm returned, and an object is marked through
\* ephemerons alone, all of them held in key_to_values with keys that were
\* White when they were inserted.
C26_Witness ==
  /\ ClosureReturns
  /\ finished_by = "linear"
  /\ max_iterations = 0
  /\ \E kv \in key_to_values :
       /\ color[kv[1]] = Black
       /\ color[kv[2]] = Black
       /\ kv[2] \notin roots
       /\ \A r \in strong : r[2] # kv[2]
       /\ \A e \in ephemerons :
            e.value = kv[2] => << e.key, e.value >> \in key_to_values

\* The ephemerons with a marked key and a White value.
OpenEphemerons(E) ==
  {e \in E : color[e.key] # White /\ color[e.value] = White}

\* C27: an iteration of MarkTransitiveClosureLinear in which newly_discovered
\* overflowed ends with the value of every ephemeron of next_ephemerons with
\* a marked key marked, the keys the buffer did not take included, and when
\* the algorithm returns no known ephemeron has a marked key and a White
\* value.
C27_OverflowVisitsAllPending ==
  /\ (mark_pc = "linear_top" /\ newly_discovered_overflowed)
       => OpenEphemerons(next_ephemerons) = {}
  /\ (ClosureReturns /\ finished_by = "linear")
       => OpenEphemerons(KnownEphemerons) = {}

\* The iteration overflowed, and its last step marked the value of a pending
\* ephemeron of key_to_values whose key was marked without being tracked.
C27_Witness ==
  /\ mark_pc = "linear_top"
  /\ newly_discovered_overflowed
  /\ \E e \in next_ephemerons :
       /\ << e.key, e.value >> \in key_to_values
       /\ color[e.key] = Black
       /\ e.key \notin newly_discovered
       /\ color[e.value] = Grey
       /\ e.value \in marking_worklist

\* C25: MarkTransitiveClosureUntilFixpoint runs at most
\* ephemeron_fixpoint_iterations rounds of ProcessEphemerons and gives up
\* only after that many; MarkTransitiveClosureLinear, once called, runs to
\* its end; and every MarkTransitiveClosure returns.
C25_ClosureTerminates ==
  /\ [](iterations <= max_iterations)
  /\ [](mark_pc = "linear" => iterations = max_iterations)
  /\ (mark_pc = "linear")
       ~> (mark_pc = "closure_returned" /\ finished_by = "linear")
  /\ (mark_pc = "fixpoint") ~> (mark_pc = "closure_returned")

\* The closure of the parallel phase gave up the fixpoint iteration while
\* the marking job ran, and the CHECK of MarkTransitiveClosureLinear failed.
C25_Witness ==
  /\ mark_pc = "crashed"
  /\ mark_failed = "MarkTransitiveClosureLinear"
  /\ closures = 1
  /\ marking_job
  /\ current_ephemerons = {}

(***************************************************************************)
(* Claims about the marking job and the final closure                      *)
(***************************************************************************)

\* The final MarkTransitiveClosure of a MarkLiveObjects with parallel marking
\* has begun.
FinalClosureBegun == flag_parallel_marking /\ closures = 2

\* A step of a task of the marking job.
ConcurrentMarkingStep ==
  MarkingTaskPop \/ MarkingTaskVisit \/ MarkingTaskEphemeron

\* C29: with parallel marking the final MarkTransitiveClosure starts only
\* after FinishConcurrentMarking joined the marking job: from then on the job
\* is gone, no task holds an object, and no task takes a step, be it a pop,
\* a visit or the processing of a discovered ephemeron.
C29_FinalClosureIsSingleThreaded ==
  /\ [](FinalClosureBegun => ~marking_job /\ task_local = {})
  /\ [][FinalClosureBegun => ~ConcurrentMarkingStep]_vars
  /\ [][closures' = 2 /\ closures = 1 =>
          mark_pc = "FinishConcurrentMarking" /\ task_local = {}]_vars

\* The final closure of a parallel MarkLiveObjects is in its worklist loop
\* with an object a task could have taken, and no task is left to take it.
C29_Witness ==
  /\ FinalClosureBegun
  /\ mark_pc = "worklist"
  /\ marking_worklist # {}
  /\ \E e \in ephemerons : e.value \in marking_worklist

(***************************************************************************)
(* Claims about the worklists at the barriers of the pipeline              *)
(***************************************************************************)
BarrierReached(step) == barrier_pc # << >> /\ Head(barrier_pc) = step

\* C22: when MarkLiveObjects has ended the marking worklist and the current
\* and discovered ephemerons are empty and remote tracing is done; when
\* ClearNonLiveReferences has ended the eight worklists of weak objects it
\* works on are empty; past the checks of Finish the current and discovered
\* ephemerons are empty.
C22_WorklistsEmptyAtBarriers ==
  /\ BarrierReached("ProcessOldCodeCandidates") =>
       /\ nonempty_worklists \cap MarkingWorklists = {}
       /\ remote_tracing_done
  /\ BarrierReached("FinishChecks") =>
       nonempty_worklists \cap ClearingWorklists = {}
  /\ BarrierReached("StartSweeperTasks") =>
       nonempty_worklists
         \cap {"current_ephemerons", "discovered_ephemerons"} = {}

\* Marking left something on each of the eight worklists, and the collector
\* got past ClearNonLiveReferences and the checks of Finish.
C22_Witness ==
  /\ BarrierReached("StartSweeperTasks")
  /\ filled_by_marking = ClearingWorklists

(***************************************************************************)
(* Claims about the frame of the evacuation candidate list                 *)
(***************************************************************************)
CandidateListChanges == evacuation_candidates_' # evacuation_candidates_

\* The positions of the collector inside MarkLiveObjects,
\* ClearNonLiveReferences, VerifyMarking, StartSweepSpaces and Finish.
FramePhases ==
  {"MarkLiveObjects", "FinishConcurrentMarking", "MarkTransitiveClosure",
   "ClearNonLiveReferences", "ClearNonLiveReferencesJoin", "VerifyMarking",
   "StartSweepSpaces", "Finish"}

\* EvacuatePrologue hands the candidate list to old_space_evacuation_pages_
\* and leaves it empty.
PrologueMovesTheList ==
  (EvacuatePrologue /\ rejected' = rejected) =>
    /\ old_space_evacuation_pages_' = evacuation_candidates_
    /\ evacuation_candidates_' = << >>

\* C23 as stated: the candidate list changes in Prepare, EvacuatePrologue
\* and AbortCompaction only.
C23_Original ==
  [][CandidateListChanges =>
       (HeapPrepare \/ EvacuatePrologue \/ CallAbortCompaction)]_vars

\* C23 (amended): the candidate list changes only in StartCompaction, which
\* Prepare calls and which the start of incremental marking calls before
\* Prepare, in EvacuatePrologue, which moves it to
\* old_space_evacuation_pages_ and leaves it empty, and in AbortCompaction;
\* the steps of MarkLiveObjects, ClearNonLiveReferences, VerifyMarking,
\* StartSweepSpaces and Finish leave it unchanged.
C23_CandidateListFrame ==
  /\ [][CandidateListChanges =>
          (HeapPrepare \/ StartIncrementalMarking \/ EvacuatePrologue
             \/ CallAbortCompaction)]_vars
  /\ [][PrologueMovesTheList]_vars
  /\ [][(pc \in FramePhases) => ~CandidateListChanges]_vars

\* A collection selected candidates, ran its marking and clearing phases and
\* EvacuatePrologue has moved the list.
C23_Witness ==
  /\ pc = "EvacuatePagesInParallel"
  /\ old_space_evacuation_pages_ # << >>
  /\ evacuation_candidates_ = << >>
  /\ "ClearNonLiveReferences" \in Range(phase_log)

(***************************************************************************)
(* Claims about the colours of the young generation.                       *)
(***************************************************************************)
\* The objects reachable from the objects of S through fields.
RECURSIVE YoungClosure(_)
YoungClosure(S) ==
  LET more == S \cup UNION {young_edges[o] : o \in S}
  IN IF more = S THEN S ELSE YoungClosure(more)

\* Marking turns White objects Grey and changes no other colour.
OnlyWhiteToGrey ==
  \A o \in Objects :
    young_color'[o] # young_color[o] =>
      young_color[o] = White /\ young_color'[o] = Grey

\* The Grey objects are those reachable from the given objects.
GreyAre(from) ==
  \A reached \in {YoungClosure(from)} :
    \A o \in Objects : young_color[o] = Grey <=> o \in reached

ObjectsOn(p) == {o \in Objects : ObjectPage(o) = p}

\* The slots PostProcessEvacuationCandidates adds to the remembered sets.
SlotsRecordedAgain ==
  (slot_set' \ slot_set) \cup (typed_slot_set' \ typed_slot_set)
    \cup (old_to_new_slots' \ old_to_new_slots)
    \cup (old_to_shared_slots' \ old_to_shared_slots)

\* What ReRecordPage leaves of a page whose evacuation failed at the object
\* failed_object[p].
PageReRecorded(p) ==
  /\ \A o \in ObjectsOn(p) : o < failed_object[p] => color[o] = White
  /\ \A o \in ObjectsOn(p) \cap live_before :
       o >= failed_object[p] => color[o] = Black
  /\ chunk_live_bytes[p] = SizeOf({o \in ObjectsOn(p) : color[o] # White})
  /\ \A o \in ObjectsOn(p) :
       o < failed_object[p] =>
         o \notin old_to_new_slots \cup old_to_shared_slots
  /\ \A o \in BlackObjectsOn(p) :
       /\ o \in young_field => o \in old_to_new_slots
       /\ Rerecorded(o)

\* C30: after ReRecordPage on a page whose evacuation failed at an object,
\* the objects before it are unmarked and the Black objects from it onwards
\* are still Black, the live bytes of the page are the sizes of its marked
\* objects, no OLD_TO_NEW or OLD_TO_SHARED slot below the failed object is
\* left, the slots of the marked objects are recorded, and the slots the
\* step records on the page belong to its marked objects.
C30_ReRecordPage ==
  /\ [](evac_pc = "UpdatePointersAfterEvacuation" =>
         \A p \in aborted_oom : PageReRecorded(p))
  /\ [][PostProcessAbortedCandidates =>
         \A p \in aborted_oom :
           SlotsRecordedAgain \cap ObjectsOn(p) \subseteq BlackObjectsOn(p)]_vars

\* ReRecordPage has run on a page aborted at its second object: the first
\* object was migrated, its OLD_TO_NEW and OLD_TO_SHARED slots are gone and
\* its bytes are no longer counted, and the young reference of the second
\* object is recorded.
C30_Witness ==
  /\ evac_pc = "UpdatePointersAfterEvacuation"
  /\ \E p \in AbortedPartWay :
       \E o \in ObjectsOn(p), f \in BlackObjectsOn(p) :
         /\ f = failed_object[p]
         /\ o < f
         /\ o \in live_before \cap young_field \cap shared_field
         /\ o \notin old_to_new_slots \cup old_to_shared_slots
         /\ Copy(o) \in old_to_new_slots
         /\ f \in young_field \cap old_to_new_slots
         /\ chunk_live_bytes[p] = ObjectSize(f)

(***************************************************************************)
(* Claims about ClearWeakCollections.                                      *)
(***************************************************************************)
\* The entries left in the tables that were on the worklist.
EntriesOfClearedTables == {e \in table_entries : e.table \in tables_before}

\* C21 as stated: after ClearWeakCollections no table that was on the
\* worklist has an entry with an unmarked key, every entry left with a
\* marked key has a marked value, and no unmarked table is in the ephemeron
\* remembered set.
C21_Original ==
  weak_pc = "returned" =>
    /\ \A e \in EntriesOfClearedTables :
         /\ e.key \in weak_marked
         /\ e.key \in weak_marked => e.value \in weak_marked
    /\ \A t \in ephemeron_remembered_set : t \in weak_marked

\* C21, as amended: after ClearWeakCollections a table that was on the
\* worklist has an entry with an unmarked key only when the key lies in the
\* shared heap and the collector is not the one of the shared heap, and
\* these are the entries it had; every entry left with a marked key has a
\* value that is marked or, in such a collector, lies in the shared heap;
\* and no unmarked table is in the ephemeron remembered set.
C21_ClearWeakCollections ==
  weak_pc = "returned" =>
    /\ \A e \in EntriesOfClearedTables :
         /\ e.key \in weak_marked
              \/ (~is_shared_heap_ /\ e.key \in shared_objects)
         /\ e.key \in weak_marked =>
              \/ e.value \in weak_marked
              \/ (~is_shared_heap_ /\ e.value \in shared_objects)
    /\ \A e \in entries_before \ table_entries :
         /\ e.table \in tables_before
         /\ e.key \notin weak_marked
    /\ \A t \in ephemeron_remembered_set : t \in weak_marked

\* ClearWeakCollections has returned: a table lost the entry of a dead key
\* and kept that of a marked key with its marked value, and a dead table
\* was erased from the remembered set.
C21_Witness ==
  /\ weak_pc = "returned"
  /\ \E kept \in table_entries, removed \in entries_before \ table_entries :
       /\ kept.table = removed.table
       /\ kept.key \in weak_marked
       /\ kept.value \in weak_marked
       /\ removed.key \notin weak_marked
       /\ removed.value \notin weak_marked
  /\ \E t \in remembered_before :
       t \notin weak_marked \cup ephemeron_remembered_set

(***************************************************************************)
(* Claims about the concurrency of the evacuation job.                     *)
(***************************************************************************)
\* The least integer that is not below a / b.
CeilingOf(a, b) == IF a % b = 0 THEN a \div b ELSE (a \div b) + 1

\* C34: every call of GetMaxConcurrency returns the smaller of the number
\* of evacuators and ceil(remaining items / ceil(1 MiB / page size)).
C34_GetMaxConcurrency ==
  [][GetMaxConcurrencyCall =>
       \E wanted \in {CeilingOf(remaining_evacuation_items,
                                CeilingOf(MB, page_size))} :
         /\ max_concurrency' <= wanted
         /\ max_concurrency' <= evacuators_size
         /\ max_concurrency' \in {wanted, evacuators_size}]_vars

\* GetMaxConcurrency answered 2 for five remaining items on pages of a
\* quarter of a MiB, where three evacuators exist.
C34_Witness ==
  /\ page_size = 262144
  /\ remaining_evacuation_items = 5
  /\ evacuators_size = 3
  /\ max_concurrency = 2

(***************************************************************************)
(* Claims about the compaction of transition arrays.                       *)
(***************************************************************************)
\* An entry whose target is marked.
HasLiveTarget(entry) == entry.target \in marked_maps

\* The array has a target that is still the deserialization sentinel, or
\* none that is White.
NothingToCompact ==
  \/ \E i \in 1..Len(array_before) :
       array_before[i].target = UninitializedTarget
  \/ \A i \in 1..Len(array_before) :
       array_before[i].target \in marked_maps \cup {UninitializedTarget}

\* A White target had the descriptor array of the parent map.
DeadTargetSharedDescriptors ==
  \E i \in 1..Len(array_before) :
    /\ array_before[i].target \notin marked_maps \cup {UninitializedTarget}
    /\ instance_descriptors[array_before[i].target] = ParentDescriptors

\* C37 as stated: CompactTransitionArray leaves the array alone and returns
\* false when a target is the sentinel or none is White; otherwise the
\* array holds the entries with marked targets in their order and the call
\* returns true exactly when a dead target shared the descriptor array of
\* the parent map.
C37_Original ==
  (transition_pc = "returned" /\ compact_called) =>
    IF NothingToCompact
    THEN transition_array = array_before /\ ~descriptors_owner_died
    ELSE /\ transition_array = SelectSeq(array_before, HasLiveTarget)
         /\ descriptors_owner_died <=> DeadTargetSharedDescriptors

\* C37, as amended: the same, where the call returns true exactly when the
\* parent map is marked and a dead target shared its descriptor array.
C37_CompactTransitionArray ==
  (transition_pc = "returned" /\ compact_called) =>
    IF NothingToCompact
    THEN transition_array = array_before /\ ~descriptors_owner_died
    ELSE /\ transition_array = SelectSeq(array_before, HasLiveTarget)
         /\ descriptors_owner_died <=>
              (parent_is_alive /\ DeadTargetSharedDescriptors)

\* An array of three entries lost the second, whose dead target shared the
\* descriptor array of the live parent: the third entry moved to the
\* second position and the call returned true.
C37_Witness ==
  /\ transition_pc = "returned"
  /\ compact_called
  /\ parent_is_alive
  /\ Len(array_before) = 3
  /\ Len(transition_array) = 2
  /\ transition_array[1] = array_before[1]
  /\ transition_array[2] = array_before[3]
  /\ transition_slots = {2}
  /\ descriptors_owner_died

(***************************************************************************)
(* Claims about the weak object retainer.                                  *)
(***************************************************************************)
\* What a call of RetainAs on an object has to do.
RetainAsContract(object) ==
  LET kept == object \in weak_list'
      chain == NestedChain(nested_site, object)
  IN /\ last_retained' = [object |-> object, retained |-> kept]
     /\ site_color[object] = Black => kept
     /\ (site_color[object] # Black /\ ~is_allocation_site[object]) => ~kept
     /\ (site_color[object] # Black /\ is_allocation_site[object]
           /\ ~is_zombie[object]) =>
          /\ kept
          /\ \A site \in chain :
               is_zombie'[site] /\ site_color'[site] = Black
     /\ (site_color[object] # Black /\ is_allocation_site[object]
           /\ is_zombie[object]) => ~kept
     /\ ~(site_color[object] # Black /\ is_allocation_site[object]
           /\ ~is_zombie[object]) =>
          UNCHANGED << is_zombie, site_color, nested_site >>

\* C36: RetainAs keeps a Black object, drops an unmarked object that is no
\* AllocationSite, keeps an unmarked site that is no zombie yet and marks
\* it and its nested sites zombie and Black, and drops an unmarked zombie;
\* no allocation site outlives more than one full collection while it is
\* unreachable.
C36_RetainAs ==
  /\ [][\A object \in Sites :
          RetainAsCall(object) => RetainAsContract(object)]_vars
  /\ [](\A site \in Sites : retained_unreachable[site] <= 1)
  /\ [](\A site \in Sites :
          (retain_pc = "mutator" /\ retained_unreachable[site] = 1
             /\ site \notin site_freed) => is_zombie[site])

\* Two collections after a site with a nested site became unreachable:
\* both outlived the first as zombies and were freed by the second.
C36_Witness ==
  /\ retain_pc = "mutator"
  /\ \E site \in Sites, inner \in Sites :
       /\ site # inner
       /\ is_allocation_site[site] /\ is_allocation_site[inner]
       /\ is_zombie[site] /\ is_zombie[inner]
       /\ retained_unreachable[site] = 1
       /\ retained_unreachable[inner] = 1
       /\ inner \notin weak_list
       /\ {site, inner} \subseteq site_freed

(***************************************************************************)
(* Claims about the ephemeron remembered set after evacuation.             *)
(***************************************************************************)
\* C38: once every evacuator is finalized the heap's ephemeron remembered
\* set holds, for every table, every index an evacuator recorded for it.
C38_FinalizeKeepsAllIndices ==
  finalize_pc = "returned" =>
    \A w \in Workers : evacuator_entries[w] \subseteq heap_ephemeron_entries

\* Every evacuator is finalized; two of them recorded an index for the same
\* table, and the heap holds the index of the first only.
C38_Witness ==
  /\ finalize_pc = "returned"
  /\ \E table \in RememberedTables :
       /\ evacuator_entries[1] = {<<table, 1>>}
       /\ evacuator_entries[2] = {<<table, 2>>}
       /\ IndicesOf(heap_ephemeron_entries, table) = {<<table, 1>>}

(***************************************************************************)
(* Claims about the OLD_TO_NEW slots in the pointer-update phase.          *)
(***************************************************************************)
\* What C35 says of a slot that CheckAndUpdateOldToNewSlot is called on:
\* what the slot holds afterwards, and whether it stays in the set.
OldToNewRule(t) ==
  LET before == old_to_new_value[t]
      after == old_to_new_value'[t]
      kept == t \in old_to_new_set'
  IN /\ (before.page = "from" /\ before.forwarding # "none") =>
          after.page = before.forwarding
     /\ ~(before.page = "from" /\ before.forwarding # "none") =>
          after = before
     /\ before.page = "from" => (kept <=> after.page = "to")
     /\ before.page = "to" => kept
     /\ before.page = "to_promoted" => (kept <=> before.marked)
     /\ (before.holds # "object" \/ before.page = "old") => ~kept

\* C35: every valid slot of a chunk whose item runs is treated by the rule
\* of CheckAndUpdateOldToNewSlot, and once the items of a full collection
\* have run no chunk has an OLD_TO_NEW slot set or a slot in one.
C35_OldToNewSlots ==
  /\ [][\A chunk \in SlotChunks :
          UpdateOldToNewPointers(chunk) =>
            \A t \in old_to_new_set :
              (ChunkOfSlot(t) = chunk /\ old_to_new_value[t].valid)
                => OldToNewRule(t)]_vars
  /\ []((updating_collector = "MARK_COMPACTOR" /\ old_to_new_items = {})
          => (old_to_new_set = {} /\ old_to_new_allocated = {}))

\* The items of a young-generation collection have run: a slot whose
\* referent was forwarded to a to-page is kept and holds the new address,
\* one forwarded to the old generation holds it and is removed, and one
\* into a page promoted new-to-new whose referent is unmarked is removed.
C35_Witness ==
  /\ old_to_new_items = {}
  /\ \E t \in old_to_new_set :
       /\ old_to_new_before[t].page = "from"
       /\ old_to_new_before[t].forwarding = "to"
       /\ old_to_new_value[t].page = "to"
  /\ \E t \in Slots \ old_to_new_set :
       /\ old_to_new_before[t].valid
       /\ old_to_new_before[t].forwarding = "old"
       /\ old_to_new_value[t].page = "old"
  /\ \E t \in Slots \ old_to_new_set :
       /\ old_to_new_before[t].valid
       /\ old_to_new_before[t].page = "to_promoted"

(***************************************************************************)
(* Claims about the lists of aborted evacuation candidates.                *)
(***************************************************************************)
TimesReported(list, p) == Cardinality({i \in DOMAIN list : list[i] = p})

\* C31: once the job is joined every page whose evacuation failed is on
\* the due-to-OOM list exactly once and nothing else is on it, at no time a
\* page is on that list twice or on both lists, and after
\* PostProcessEvacuationCandidates the number of candidates carrying
\* COMPACTION_WAS_ABORTED is the combined size of the two lists.
C31_AbortedReports ==
  /\ \A p \in ReportPages : TimesReported(due_to_oom, p) <= 1
  /\ Range(due_to_oom) \cap Range(due_to_flags) = {}
  /\ report_pc \in {"PostProcessEvacuationCandidates", "Done"} =>
       /\ \A p \in failed_pages : TimesReported(due_to_oom, p) = 1
       /\ Range(due_to_oom) \subseteq failed_pages
  /\ report_pc = "Done" =>
       /\ Cardinality(report_candidates \cap compaction_was_aborted)
            = Len(due_to_oom) + Len(due_to_flags)
       /\ aborted_pages_verified = aborted_pages

\* Two evacuators each reported a failed page and the main thread reported
\* the code page, and the candidates have been post-processed.
C31_Witness ==
  /\ report_pc = "Done"
  /\ Len(due_to_oom) = 2
  /\ Len(due_to_flags) = 1
  /\ aborted_pages = 3

(***************************************************************************)
(* Claims about the candidates the stack flags rule out.                   *)
(***************************************************************************)
\* The candidates C32 names: all of them when the collection runs with a
\* stack and compact_with_stack is off, the code pages among them when only
\* compact_code_space_with_stack is off.
RuledOutByStack ==
  IF gc_without_stack THEN {}
  ELSE IF ~flags.compact_with_stack
  THEN Range(old_space_evacuation_pages_)
  ELSE IF ~flags.compact_code_space_with_stack
  THEN {p \in Range(old_space_evacuation_pages_) :
          PageOwner(p) = "CODE_SPACE"}
  ELSE {}

\* No object of the page has a copy or a forwarding address, and its live
\* objects are still marked.
NothingCopiedFrom(p) ==
  \A o \in ObjectsOn(p) :
    /\ map_word[o] = 0
    /\ copy_page[o] = 0
    /\ o \in live_before => color[o] = Black

\* C32: once the evacuation items are collected every candidate the stack
\* flags rule out carries COMPACTION_WAS_ABORTED and is no item of the job,
\* and none of its objects is ever copied or forwarded; when
\* PostProcessEvacuationCandidates has run the slots of all of its Black
\* objects are recorded, and the page is on the chunk list of its space
\* without the candidate flag, so that it is left to the sweeper and
\* ReleaseEvacuationCandidates does not release it.
C32_RuledOutByStack ==
  \A p \in RuledOutByStack :
    /\ evac_pc # "EvacuatePagesInParallel" =>
         /\ COMPACTION_WAS_ABORTED \in page_flags[p]
         /\ job.kind = "evacuation" => p \notin job.pending
         /\ NothingCopiedFrom(p)
         /\ p \in chunk_list
    /\ evac_pc \in {"UpdatePointersAfterEvacuation", "UpdatePointersJoin",
                    "done"} =>
         /\ p \notin ReleaseEvacuationCandidates
         /\ chunk_live_bytes[p] = SizeOf(BlackObjectsOn(p))
         /\ evac_pc = "UpdatePointersAfterEvacuation" =>
              \A o \in BlackObjectsOn(p) : Rerecorded(o)

\* Only compact_code_space_with_stack is off: the code page among the
\* candidates kept its objects, one of them refers into the other candidate
\* and its slot was recorded again, and the other candidate was evacuated.
C32_Witness ==
  /\ evac_pc = "UpdatePointersAfterEvacuation"
  /\ flags.compact_with_stack
  /\ \E p \in RuledOutByStack :
       /\ \E o \in BlackObjectsOn(p) :
            /\ IsStrongOrWeak(field[o])
            /\ ObjectPage(field[o].target) # p
            /\ o \in typed_slot_set
       /\ \E q \in Range(old_space_evacuation_pages_) \ RuledOutByStack :
            \E o \in ObjectsOn(q) : map_word[o] # 0

(***************************************************************************)
(* Claims about the promotion of nursery pages as a whole.                 *)
(***************************************************************************)
\* The conditions C33 names for a page.
PromotionConditions(p) ==
  /\ promo_page[p].live_bytes * 100
       > promo_heap.page_promotion_threshold * AllocatableMemoryInDataPage
  /\ ~promo_heap.reduce_memory
  /\ ~promo_page[p].never_evacuate
  /\ promo_page[p].can_expand
  /\ promo_collector = "MINOR_MARK_COMPACTOR"
       => ~promo_page[p].contains_age_mark

PromotedAsAWhole(p) == promo_flag[p] # "none"

\* What C33 says besides the conditions: with page_promotion off the full
\* collector promotes no page, and no object of a promoted page is copied
\* or forwarded.
PromotionCopiesNothing ==
  /\ (promo_collector = "MARK_COMPACTOR" /\ ~promo_heap.page_promotion)
       => \A p \in NurseryPages : ~PromotedAsAWhole(p)
  /\ \A p \in NurseryPages :
       PromotedAsAWhole(p) =>
         /\ p \notin forwarding_installed
         /\ evacuated_as[p] \in {"none", "kPageNewToOld", "kPageNewToNew"}

\* C33 as stated: a page is promoted as a whole only under the conditions.
C33_Original ==
  /\ \A p \in NurseryPages : PromotedAsAWhole(p) => PromotionConditions(p)
  /\ PromotionCopiesNothing

\* C33 (amended): a nursery page is promoted as a whole only if the
\* young-generation collector runs with minor_mc_sweeping or the conditions
\* hold; with page_promotion off the full collector promotes no page; no
\* object of a page promoted as a whole is copied or forwarded.
C33_WholePagePromotion ==
  /\ \A p \in NurseryPages :
       PromotedAsAWhole(p) =>
         \/ /\ promo_collector = "MINOR_MARK_COMPACTOR"
            /\ promo_heap.minor_mc_sweeping
         \/ PromotionConditions(p)
  /\ PromotionCopiesNothing

\* Without minor_mc_sweeping one page was promoted as a whole and visited
\* in place, and the objects of the other page, whose live bytes are just
\* the threshold, were copied.
C33_Witness ==
  /\ promo_pc = "returned"
  /\ ~promo_heap.minor_mc_sweeping
  /\ promo_heap.page_promotion_threshold = 70
  /\ \E p \in NurseryPages :
       /\ PromotedAsAWhole(p)
       /\ evacuated_as[p] \in {"kPageNewToOld", "kPageNewToNew"}
  /\ \E p \in NurseryPages :
       /\ promo_page[p].live_bytes = 28
       /\ ~promo_page[p].never_evacuate
       /\ promo_page[p].can_expand
       /\ p \in forwarding_installed

(***************************************************************************)
(* Claims about the page flags over the cycle.                             *)
(***************************************************************************)
\* The pages that exist: those the collector has not released.
ExistingPages == Pages \ released_pages

\* No page carries a flag of the evacuation or has an OLD_TO_OLD slot set,
\* and compacting_ is false.
NothingLeftOfCompaction ==
  /\ \A p \in ExistingPages :
       /\ EVACUATION_CANDIDATE \notin page_flags[p]
       /\ COMPACTION_WAS_ABORTED \notin page_flags[p]
       /\ ~old_to_old[p]
  /\ \A p \in Pages : promotion[p] # "PAGE_NEW_OLD_PROMOTION"
  /\ ~compacting_

\* C39: every page of evacuation_candidates_ carries EVACUATION_CANDIDATE,
\* every page that carries it is on that list or on
\* old_space_evacuation_pages_, and in the IDLE state a complete cycle ends
\* in, until the next candidate selection, no page carries
\* EVACUATION_CANDIDATE, COMPACTION_WAS_ABORTED or PAGE_NEW_OLD_PROMOTION or
\* has an OLD_TO_OLD slot set and compacting_ is false, so that the checks
\* of the next candidate selection hold and none of them ever fails.
C39_PageFlags ==
  /\ \A p \in Range(evacuation_candidates_) :
       EVACUATION_CANDIDATE \in page_flags[p]
  /\ \A p \in ExistingPages :
       EVACUATION_CANDIDATE \in page_flags[p] =>
         p \in Range(evacuation_candidates_)
                \cup Range(old_space_evacuation_pages_)
  /\ (CycleDone /\ state_ = IDLE /\ ~is_marking) =>
       /\ NothingLeftOfCompaction
       /\ StartCompactionChecks(Collector, "kAtomic")
  /\ rejected \notin {"StartCompaction", "CollectEvacuationCandidates"}

\* A cycle in which one candidate was evacuated and released, another was
\* aborted and a nursery page was promoted as a whole has ended.
C39_Witness ==
  /\ CycleDone
  /\ state_ = IDLE
  /\ ~is_marking
  /\ \E p \in released_pages : EVACUATION_CANDIDATE \in page_flags[p]
  /\ \E p \in cycle_aborted \cap ExistingPages : sweeper_pages[p] > 0
  /\ cycle_promoted # {}

(***************************************************************************)
(* Claims about the targets of the forwarding addresses.                   *)
(***************************************************************************)
ForwardedWithoutCopy(o) ==
  fw_map_word[o] # 0 /\ fw_map_word[o] <= NumForwarded

\* C40: no forwarding address points to an object on an evacuation
\* candidate or on a from-page; a ThinString forwarded to its actual string
\* without a copy was visited with incremental marking off and its actual
\* string is on no candidate; the field UpdateSlot has rewritten points to
\* no candidate and to no from-page.
C40_ForwardingTargets ==
  /\ \A o \in ForwardedObjects :
       fw_map_word[o] # 0 =>
         PageOfAddress(fw_map_word[o]) \notin {"candidate", "from"}
  /\ \A o \in ForwardedObjects :
       ForwardedWithoutCopy(o) =>
         /\ o \in fw_thin
         /\ ~fw_incremental
         /\ fw_page[fw_map_word[o]] # "candidate"
  /\ \A o \in fw_rewritten :
       PageOfAddress(fw_slot[o]) \notin {"candidate", "from"}

\* The full collector forwarded a ThinString of the nursery to its actual
\* string, copied an object of the candidate, and UpdateSlot rewrote a field
\* that referred to the ThinString.
C40_Witness ==
  /\ fw_collector = "MARK_COMPACTOR"
  /\ fw_pc = "UpdatePointersAfterEvacuation"
  /\ \E o \in fw_thin : ForwardedWithoutCopy(o)
  /\ \E o \in ForwardedObjects :
       /\ fw_page[o] = "candidate"
       /\ fw_map_word[o] = CopyOf(o)
  /\ \E o \in fw_rewritten :
       fw_slot[o] <= NumForwarded /\ fw_slot[o] # 0

====
